---- MODULE Spec2Model ----
(***************************************************************************)
(* Dispatch model of the BURN4H2 energy system.                            *)
(*                                                                         *)
(* The program builds a mixed-integer linear model out of asset blocks     *)
(* (block construction rules that declare variables, ports and             *)
(* constraints), connects the blocks' ports by arcs and hands the model    *)
(* to a solver.  The state machine below follows that life cycle: an       *)
(* asset object is constructed from its parameter table and its kwargs     *)
(* (pc = "new" -> "constructed"), its block rule is run (-> "built"), and  *)
(* then an assignment of the block's variables is extended one hour at a   *)
(* time, each extension being any point of a finite candidate grid that    *)
(* satisfies every constraint the block holds for that hour.  The          *)
(* reachable values of sol are therefore exactly the grid points of the    *)
(* feasible region, hour by hour.  The composed model follows              *)
(* run_simulation: add_components, instantiate, add_arcs, expand_arcs and  *)
(* one solved hour of the expanded arc constraints.                        *)
(*                                                                         *)
(* Real-valued quantities are held as integers in a stated unit, and every *)
(* constraint with a quotient in the source is stated cross-multiplied by  *)
(* its (positive) denominator, so that it is exact.                        *)
(***************************************************************************)
EXTENDS Integers, Sequences, FiniteSets, TLC

VARIABLES
    pc,     \* position in the life cycle of the asset / model
    cfg,    \* what the asset object was constructed with: data table, kwargs
    block,  \* the pyomo block as built: variables, constraints, ports
    sol     \* the assignment, one record of variable values per hour

vars == <<pc, cfg, block, sol>>

(***************************************************************************)
(* Bounds of the candidate grid.                                           *)
(***************************************************************************)
NHours == 2          \* hours of the time set t
PowerBound == 4      \* candidate values of a power variable: 0..PowerBound
GasBound == 6        \* candidate values of the CHP's gas variable
HeatBound == 4       \* candidate values of a heat variable
Co2Bound == 40       \* candidate values of the CHP's co2 variable
BatteryHours == 4    \* hours of the time set t when the battery is solved
ContentBound == 4    \* candidate values of a storage content: 0..ContentBound
QuotientBound == 2   \* candidate values of aux_quotient: -QuotientBound..QuotientBound
DemandBound == 5     \* largest hourly heat demand of a demand profile

Binary == {0, 1}

Hours == 1..NHours

EmptyBlock == [vars |-> {}, constraints |-> {}, ports |-> {}]

RECURSIVE GCD(_, _)
GCD(a, b) == IF b = 0 THEN a ELSE GCD(b, a % b)

RECURSIVE SumSeq(_, _)
\* sum of f[1..n]
SumSeq(f, n) == IF n = 0 THEN 0 ELSE SumSeq(f, n - 1) + f[n]

\* the sum of f over the set S
RECURSIVE SumOver(_, _)
SumOver(f, S) ==
    IF S = {} THEN 0
    ELSE LET x == CHOOSE x \in S : TRUE IN f[x] + SumOver(f, S \ {x})

(***************************************************************************)
(* Cogeneration unit, burn4h2/blocks/chp.py                                *)
(***************************************************************************)

\* Parameter tables (the asset csv): <<min, max>> per quantity.  co2 is in
\* units small enough for the admixture-scaled emissions to be on the grid.
ChpData ==
    { [power |-> <<1, 3>>, gas |-> <<2, 6>>, heat |-> <<1, 3>>,
       co2 |-> <<10, 30>>, waste_heat |-> <<1, 1>>],
      [power |-> <<2, 4>>, gas |-> <<3, 5>>, heat |-> <<0, 2>>,
       co2 |-> <<20, 40>>, waste_heat |-> <<0, 2>>] }

\* hydrogen_admixture values in tenths: 0, 0.3, 0.5, 1.0
ALLOWED_ADMIXTURE_VALUES == {0, 3, 5, 10}

ChpKwargKeys == {"forced_operation_time", "hydrogen_admixture", "unknown_option"}

\* kwargs a Chp object may be constructed with
ChpKwargs ==
    UNION { { k \in [K -> 0..10] :
                /\ "hydrogen_admixture" \in K
                     => k["hydrogen_admixture"] \in ALLOWED_ADMIXTURE_VALUES
                /\ "forced_operation_time" \in K
                     => k["forced_operation_time"] = 1
                /\ "unknown_option" \in K => k["unknown_option"] = 0 }
            : K \in SUBSET ChpKwargKeys }

\* fuel property constants; the densities are held in 1/100 kg/m3
HV_H2 == 120
HV_NG == 47
RHO_H2 == 9
RHO_NG == 68

Chp_allowed_kwargs == {"forced_operation_time", "hydrogen_admixture"}

\* Chp.__init__: stores the arguments, then validate_kwargs raises KeyError
\* on the first key that is not allowed.
Chp_init ==
    /\ pc = "new"
    /\ pc' = IF \E key \in DOMAIN cfg.kwargs : key \notin Chp_allowed_kwargs
             THEN "KeyError"
             ELSE "constructed"
    /\ UNCHANGED <<cfg, block, sol>>

\* the admixture factor of the block, in tenths
hydrogen_admixture_factor == cfg.kwargs["hydrogen_admixture"]

power_max == cfg.data.power[2]
power_min == cfg.data.power[1]

\* The chord coefficients of quantity q, times (power_max - power_min):
\*   a = (q_max - q_min) / (power_max - power_min),  b = q_max - a * power_max
Chp_a(q) == cfg.data[q][2] - cfg.data[q][1]
Chp_b(q) == cfg.data[q][2] * (power_max - power_min) - Chp_a(q) * power_max

\* the maximal power without the commitment binary
Chp_power_max_rule_ungated(power, bin) == power <= power_max

Chp_power_max_rule(power, bin) == power <= power_max * bin

Chp_power_min_rule(power, bin) == power_min * bin <= power

Chp_gas_depends_on_power_rule(gas, power, bin) ==
    gas * (power_max - power_min) = Chp_a("gas") * power + Chp_b("gas") * bin

\* the plain ratio form heat = heat_max / power_max * power
Chp_heat_depends_on_power_rule_ratio(heat, power, bin) ==
    heat * power_max = cfg.data.heat[2] * power

Chp_heat_depends_on_power_rule(heat, power, bin) ==
    heat * (power_max - power_min) = Chp_a("heat") * power + Chp_b("heat") * bin

Chp_co2_depends_on_power_rule(co2, power, bin) ==
    co2 * (power_max - power_min) = Chp_a("co2") * power + Chp_b("co2") * bin

Chp_waste_heat_depends_on_power_rule(waste_heat, power, bin) ==
    waste_heat * (power_max - power_min)
        = Chp_a("waste_heat") * power + Chp_b("waste_heat") * bin

\* quicksum(bin[i] for i in t) >= kwarg_value
Chp_forced_operation_time_rule(bins) ==
    SumSeq(bins, Len(bins)) >= cfg.kwargs["forced_operation_time"]

\* the emissions scaled by the factor instead of by (1 - factor)
Chp_co2_when_admixtured_depends_on_power_rule_by_factor(co2, power, bin) ==
    co2 * 10 * (power_max - power_min)
        = (Chp_a("co2") * power + Chp_b("co2") * bin)
            * hydrogen_admixture_factor

\* co2 == (a * power + b * bin) * (1 - factor), times 10 * (power_max - power_min)
Chp_co2_when_admixtured_depends_on_power_rule(co2, power, bin) ==
    co2 * 10 * (power_max - power_min)
        = (Chp_a("co2") * power + Chp_b("co2") * bin)
            * (10 - hydrogen_admixture_factor)

\* volumetric proportions, in tenths
vol_h2 == hydrogen_admixture_factor
vol_ng == 10 - vol_h2

\* energy densities, in 1/100 MJ/m3
energy_density_h2 == RHO_H2 * HV_H2
energy_density_ng == RHO_NG * HV_NG

\* numerators and the common denominator of the two energy fractions
energy_h2 == vol_h2 * energy_density_h2
energy_ng == vol_ng * energy_density_ng
energy_total == vol_h2 * energy_density_h2 + vol_ng * energy_density_ng

\* hydrogen and natural_gas are held in units of 1/Fine of the gas unit, Fine
\* being the denominator of the energy fraction in lowest terms, so that the
\* exact split of every integer gas value is on the grid.
Fine == energy_total \div GCD(energy_h2, energy_total)

\* the volumetric split hydrogen == gas * factor
Chp_hydrogen_depends_on_gas_rule_volumetric(hydrogen, gas) ==
    hydrogen * 10 = gas * hydrogen_admixture_factor

\* hydrogen == gas * energy_fraction_h2, all in units of 1/Fine
Chp_hydrogen_depends_on_gas_rule(hydrogen, gas) ==
    hydrogen * energy_total = gas * energy_h2

\* natural_gas == gas * energy_fraction_ng, all in units of 1/Fine
Chp_ngas_depends_on_gas_rule(natural_gas, gas) ==
    natural_gas * energy_total = gas * energy_ng

\* The block that chp_block_rule leaves behind.  Ports are
\* <<port, member name, variable>>.
Chp_block ==
    LET declared ==
            [vars |-> {"bin", "gas", "power", "heat", "co2", "waste_heat",
                       "hydrogen"},
             ports |-> { <<"power_out", "power", "power">>,
                         <<"natural_gas_in", "natural_gas", "gas">>,
                         <<"heat_out", "heat", "heat">>,
                         <<"waste_heat_out", "waste_heat", "waste_heat">>,
                         <<"hydrogen_in", "hydrogen", "hydrogen">> },
             constraints |-> { "power_max_constraint",
                               "power_min_constraint",
                               "gas_depends_on_power_constraint",
                               "heat_depends_on_power_constraint",
                               "co2_depends_on_power_constraint",
                               "waste_heat_depends_on_power_constraint" }]
        forced ==
            IF "forced_operation_time" \in DOMAIN cfg.kwargs
            THEN [declared EXCEPT !.constraints =
                      @ \cup {"forced_operation_time_constraint"}]
            ELSE declared
    IN  IF hydrogen_admixture_factor > 0
        THEN [vars |-> forced.vars \cup {"natural_gas"},
              ports |->
                  (forced.ports \ {<<"natural_gas_in", "natural_gas", "gas">>})
                      \cup {<<"natural_gas_in", "natural_gas", "natural_gas">>},
              constraints |->
                  (forced.constraints \ {"co2_depends_on_power_constraint"})
                      \cup { "co2_when_admixtured_depends_on_power_constraint",
                             "hydrogen_depends_on_gas_constraint",
                             "ngas_depends_on_gas_constraint" }]
        ELSE forced

\* Chp.add_to_model: runs chp_block_rule.  The rule reads
\* kwargs['hydrogen_admixture'] unconditionally, a KeyError when it is absent.
Chp_add_to_model ==
    /\ pc = "constructed"
    /\ cfg.asset = "chp"
    /\ IF "hydrogen_admixture" \in DOMAIN cfg.kwargs
       THEN pc' = "built" /\ block' = Chp_block
       ELSE pc' = "KeyError" /\ block' = block
    /\ UNCHANGED <<cfg, sol>>

Con(name) == name \in block.constraints

\* The solver extends the assignment by one hour: any candidate point that
\* satisfies the constraints of the block indexed by that hour; the last
\* hour must also satisfy the constraint over the whole time set.
Chp_solve ==
    /\ pc = "built"
    /\ cfg.asset = "chp"
    /\ Len(sol) < NHours
    /\ \E bin \in Binary, power \in 0..PowerBound :
        /\ Con("power_max_constraint") => Chp_power_max_rule(power, bin)
        /\ Con("power_min_constraint") => Chp_power_min_rule(power, bin)
        /\ (Con("forced_operation_time_constraint") /\ Len(sol) + 1 = NHours)
             => Chp_forced_operation_time_rule(
                    [i \in 1..NHours |->
                        IF i = NHours THEN bin ELSE sol[i].bin])
        /\ \E gas \in { x \in 0..GasBound :
                          Con("gas_depends_on_power_constraint")
                            => Chp_gas_depends_on_power_rule(x, power, bin) } :
           \E heat \in { x \in 0..HeatBound :
                          Con("heat_depends_on_power_constraint")
                            => Chp_heat_depends_on_power_rule(x, power, bin) } :
           \E co2 \in { x \in 0..Co2Bound :
                          /\ Con("co2_depends_on_power_constraint")
                               => Chp_co2_depends_on_power_rule(x, power, bin)
                          /\ Con("co2_when_admixtured_depends_on_power_constraint")
                               => Chp_co2_when_admixtured_depends_on_power_rule(
                                      x, power, bin) } :
           \E waste_heat \in { x \in 0..HeatBound :
                          Con("waste_heat_depends_on_power_constraint")
                            => Chp_waste_heat_depends_on_power_rule(
                                   x, power, bin) } :
           \E hydrogen \in
                  IF Con("hydrogen_depends_on_gas_constraint")
                  THEN LET gas_fine == gas * Fine
                       IN  { x \in 0..(GasBound * Fine) :
                               Chp_hydrogen_depends_on_gas_rule(x, gas_fine) }
                  ELSE 0..(GasBound * Fine) :
           \E natural_gas \in
                  IF "natural_gas" \notin block.vars
                  THEN {0}
                  ELSE IF Con("ngas_depends_on_gas_constraint")
                  THEN LET gas_fine == gas * Fine
                       IN  { x \in 0..(GasBound * Fine) :
                               Chp_ngas_depends_on_gas_rule(x, gas_fine) }
                  ELSE 0..(GasBound * Fine) :
              sol' = Append(sol,
                        [bin |-> bin, power |-> power, gas |-> gas,
                         heat |-> heat, co2 |-> co2,
                         waste_heat |-> waste_heat, hydrogen |-> hydrogen,
                         natural_gas |-> natural_gas])
    /\ UNCHANGED <<pc, cfg, block>>

InitChp ==
    /\ pc = "new"
    /\ cfg \in [asset : {"chp"}, data : ChpData, kwargs : ChpKwargs]
    /\ block = EmptyBlock
    /\ sol = <<>>

NextChp == Chp_init \/ Chp_add_to_model \/ Chp_solve

SpecChp == InitChp /\ [][NextChp]_vars

(***************************************************************************)
(* Properties of the cogeneration block                                    *)
(***************************************************************************)

ChpBuilt == pc = "built" /\ cfg.asset = "chp"

\* the variable bound to a port of the block
PortVar(port) == (CHOOSE p \in block.ports : p[1] = port)[3]

\* q lies on the chord through (power_min, q_min) and (power_max, q_max),
\* scaled by num/den
OnChord(q, value, power, num, den) ==
    (den * value - num * cfg.data[q][1]) * (power_max - power_min)
        = num * (cfg.data[q][2] - cfg.data[q][1]) * (power - power_min)

\* C1: CHP commitment gating.  In every assignment satisfying the block's
\* constraints, for every hour, bin = 0 implies power = gas = heat = co2 =
\* waste_heat = 0, and bin = 1 implies power_min <= power <= power_max and
\* q_min <= q <= q_max for gas, heat, waste_heat and (without admixture) co2.
C1_CommitmentGating ==
    ChpBuilt =>
        \A i \in 1..Len(sol) :
            /\ sol[i].bin = 0 =>
                   /\ sol[i].power = 0 /\ sol[i].gas = 0 /\ sol[i].heat = 0
                   /\ sol[i].co2 = 0 /\ sol[i].waste_heat = 0
            /\ sol[i].bin = 1 =>
                   /\ power_min <= sol[i].power /\ sol[i].power <= power_max
                   /\ \A q \in {"gas", "heat", "waste_heat"} :
                          /\ cfg.data[q][1] <= sol[i][q]
                          /\ sol[i][q] <= cfg.data[q][2]
                   /\ hydrogen_admixture_factor = 0 =>
                          /\ cfg.data.co2[1] <= sol[i].co2
                          /\ sol[i].co2 <= cfg.data.co2[2]

\* C1 witness: a solved horizon with an hour off and an hour running
\* strictly inside the power range.
C1_Witness ==
    /\ ChpBuilt
    /\ \E i, j \in 1..Len(sol) :
           /\ sol[i].bin = 0
           /\ sol[j].bin = 1
           /\ power_min < sol[j].power /\ sol[j].power < power_max

\* C2 as stated: for every hour with bin = 1 and every q in {gas, heat, co2,
\* waste_heat}, (power, q) lies on the chord through (power_min, q_min) and
\* (power_max, q_max).
C2_ChordAllQuantities ==
    ChpBuilt =>
        \A i \in 1..Len(sol) :
            sol[i].bin = 1 =>
                \A q \in {"gas", "heat", "co2", "waste_heat"} :
                    OnChord(q, sol[i][q], sol[i].power, 1, 1)

\* C2 amended: for every hour with bin = 1, (power, q) lies on the chord for
\* gas, heat and waste_heat, and for co2 when the admixture factor is 0; with
\* an admixture factor f > 0, co2 lies on the chord scaled by (1 - f).
C2_ChordLinearization ==
    ChpBuilt =>
        \A i \in 1..Len(sol) :
            sol[i].bin = 1 =>
                /\ \A q \in {"gas", "heat", "waste_heat"} :
                       OnChord(q, sol[i][q], sol[i].power, 1, 1)
                /\ OnChord("co2", sol[i].co2, sol[i].power,
                           10 - hydrogen_admixture_factor, 10)
                /\ sol[i].power = power_min => sol[i].gas = cfg.data.gas[1]
                /\ sol[i].power = power_max => sol[i].gas = cfg.data.gas[2]

\* C2 witness: a running hour strictly inside the power range, with and
\* without admixture in the same reachable set.
C2_Witness ==
    /\ ChpBuilt
    /\ hydrogen_admixture_factor = 3
    /\ \E i \in 1..Len(sol) :
           /\ sol[i].bin = 1
           /\ power_min < sol[i].power /\ sol[i].power < power_max
           /\ sol[i].co2 > 0

C4_NoHydrogenWithoutAdmixture ==
    (ChpBuilt /\ hydrogen_admixture_factor = 0) =>
        \A i \in 1..Len(sol) :
            /\ sol[i].hydrogen = 0
            /\ sol[i][PortVar("natural_gas_in")] = sol[i].gas

\* C5: CO2 under admixture.  When f > 0, co2 = (a * power + b * bin) * (1 - f)
\* in every hour, so with f = 1.0 co2 = 0; and the block holds exactly one of
\* the two CO2 coupling constraints.
C5_Co2UnderAdmixture ==
    ChpBuilt =>
        /\ Cardinality(block.constraints
               \cap { "co2_depends_on_power_constraint",
                      "co2_when_admixtured_depends_on_power_constraint" }) = 1
        /\ hydrogen_admixture_factor > 0 =>
               /\ "co2_depends_on_power_constraint" \notin block.constraints
               /\ \A i \in 1..Len(sol) :
                      /\ sol[i].co2 * 10 * (power_max - power_min)
                             = ( (cfg.data.co2[2] - cfg.data.co2[1])
                                     * sol[i].power
                                 + ( cfg.data.co2[2] * (power_max - power_min)
                                     - (cfg.data.co2[2] - cfg.data.co2[1])
                                         * power_max ) * sol[i].bin )
                               * (10 - hydrogen_admixture_factor)
                      /\ hydrogen_admixture_factor = 10 => sol[i].co2 = 0

\* C5 witness: a running hour at a partial admixture, emitting, and a
\* running hour at full admixture.
C5_Witness ==
    /\ ChpBuilt
    /\ hydrogen_admixture_factor \in {3, 5}
    /\ \E i \in 1..Len(sol) : sol[i].bin = 1 /\ sol[i].co2 > 0

(***************************************************************************)
(* Battery storage, blocks/storage.py                                      *)
(***************************************************************************)

\* Parameter tables (the asset csv): <<min, max>> per column.
BatteryData ==
    { [power |-> <<0, 2>>, capacity |-> <<0, 3>>],
      [power |-> <<0, 1>>, capacity |-> <<1, 2>>] }

BatteryKwargKeys == {"cyclic_behaviour", "unknown_option"}

\* kwargs a BatteryStorage object may be constructed with
BatteryKwargs ==
    UNION { { k \in [K -> 0..3] :
                /\ "cyclic_behaviour" \in K => k["cyclic_behaviour"] \in {2, 3}
                /\ "unknown_option" \in K => k["unknown_option"] = 0 }
            : K \in SUBSET BatteryKwargKeys }

BatteryStorage_allowed_kwargs == {"cyclic_behaviour"}

\* BatteryStorage.__init__: stores the arguments, then validate_kwargs raises
\* KeyError on the first key that is not allowed.
BatteryStorage_init ==
    /\ pc = "new"
    /\ pc' = IF \E key \in DOMAIN cfg.kwargs :
                    key \notin BatteryStorage_allowed_kwargs
             THEN "KeyError"
             ELSE "constructed"
    /\ UNCHANGED <<cfg, block, sol>>

\* In the rules below _block is the assignment (one record per hour) and i
\* the hour the constraint is indexed by.

BatteryStorage_max_power_charging_rule(_block, i) ==
    _block[i].power_charging <= cfg.data.power[2] * _block[i].bin_charge

BatteryStorage_max_power_discharging_rule_ungated(_block, i) ==
    _block[i].power_discharging <= cfg.data.power[2]

BatteryStorage_max_power_discharging_rule(_block, i) ==
    _block[i].power_discharging <= cfg.data.power[2] * _block[i].bin_discharge

BatteryStorage_power_balance_rule(_block, i) ==
    _block[i].power_balance
        = _block[i].power_discharging - _block[i].power_charging

\* charging and discharging allowed in the same hour
BatteryStorage_binary_rule_at_least_one(_block, i) ==
    _block[i].bin_charge + _block[i].bin_discharge >= 1

BatteryStorage_binary_rule(_block, i) ==
    _block[i].bin_charge + _block[i].bin_discharge = 1

BatteryStorage_max_power_content_rule(_block, i) ==
    _block[i].power_content <= cfg.data.capacity[2]

BatteryStorage_min_power_content_rule(_block, i) ==
    _block[i].power_content >= cfg.data.capacity[1]

\* the content growing with the balance instead of shrinking
BatteryStorage_actual_power_content_rule_plus(_block, i) ==
    IF i = 1
    THEN _block[i].power_content = 0 + _block[i].power_balance
    ELSE _block[i].power_content
             = _block[i - 1].power_content + _block[i].power_balance

BatteryStorage_actual_power_content_rule(_block, i) ==
    IF i = 1
    THEN _block[i].power_content = 0 - _block[i].power_balance
    ELSE _block[i].power_content
             = _block[i - 1].power_content - _block[i].power_balance

\* current_state - previous_state of the rules below (i > 1)
switch_state(_block, i) ==
    (_block[i].bin_charge - _block[i].bin_discharge)
        - (_block[i - 1].bin_charge - _block[i - 1].bin_discharge)

BatteryStorage_switch_from_charge_to_discharge_rule(_block, i) ==
    IF i = 1
    THEN _block[i].bin_switch = 0
    ELSE switch_state(_block, i) >= -2 * _block[i].bin_switch

BatteryStorage_switch_from_discharge_to_charge_rule(_block, i) ==
    IF i = 1
    THEN _block[i].bin_switch = 0
    ELSE 2 * _block[i].bin_switch >= switch_state(_block, i)

\* the product left unconstrained
BatteryStorage_no_operational_switch_rule_relaxed(_block, i) ==
    IF i = 1
    THEN _block[i].bin_switch = 0
    ELSE _block[i].aux_remainder * _block[i].bin_switch >= 0

BatteryStorage_no_operational_switch_rule(_block, i) ==
    IF i = 1
    THEN _block[i].bin_switch = 0
    ELSE _block[i].aux_remainder * _block[i].bin_switch = 0

BatteryStorage_modulo_switch_rule(_block, i) ==
    IF i = 1
    THEN _block[i].aux_remainder = 0
    ELSE switch_state(_block, i) + 2
             = 4 * _block[i].aux_quotient + _block[i].aux_remainder

BatteryStorage_cyclic_switch_rule(_block, i) ==
    IF (i - 1) % cfg.kwargs["cyclic_behaviour"] = 0
    THEN _block[i].cyclic_switch_bin = 0
    ELSE _block[i].cyclic_switch_bin = _block[i].bin_switch

\* the window constraint skipped on every hour
BatteryStorage_cyclic_behaviour_rule_skipped(_block, i) == TRUE

\* sum(cyclic_switch_bin[j] for j in range(i, i - kwarg_value, -1)) <= 1 on
\* the hours that are a multiple of kwarg_value, skipped on the others
BatteryStorage_cyclic_behaviour_rule(_block, i) ==
    LET kwarg_value == cfg.kwargs["cyclic_behaviour"]
    IN  IF i % kwarg_value = 0
        THEN SumSeq([n \in 1..kwarg_value |->
                        _block[i - n + 1].cyclic_switch_bin], kwarg_value) <= 1
        ELSE TRUE

\* The block that battery_storage_block_rule leaves behind.
BatteryStorage_block ==
    LET declared ==
            [vars |-> {"power_balance", "power_charging", "power_discharging",
                       "power_content", "bin_discharge", "bin_charge",
                       "bin_switch", "aux_remainder", "aux_quotient"},
             ports |-> { <<"power_in", "power", "power_charging">>,
                         <<"power_out", "power", "power_discharging">> },
             constraints |-> { "max_power_charging_constraint",
                               "max_power_discharging_constraint",
                               "power_balance_constraint",
                               "binary_constraint",
                               "max_power_content_constraint",
                               "min_power_content_constraint",
                               "actual_power_content_constraint",
                               "switch_from_charge_to_discharge_constraint",
                               "switch_from_discharge_to_charge_constraint",
                               "no_operational_switch_constraint",
                               "modulo_constraint" }]
    IN  IF "cyclic_behaviour" \in DOMAIN cfg.kwargs
        THEN [declared EXCEPT
                  !.vars = @ \cup {"cyclic_switch_bin"},
                  !.constraints = @ \cup { "cyclic_switch_constraint",
                                           "cyclic_behavior_constaint" }]
        ELSE declared

\* BatteryStorage.add_to_model: runs battery_storage_block_rule.
BatteryStorage_add_to_model ==
    /\ pc = "constructed"
    /\ cfg.asset = "battery_storage"
    /\ pc' = "built"
    /\ block' = BatteryStorage_block
    /\ UNCHANGED <<cfg, sol>>

\* The solver extends the assignment by one hour i: any candidate point that
\* satisfies the constraints of the block indexed by i.
BatteryStorage_solve ==
    /\ pc = "built"
    /\ cfg.asset = "battery_storage"
    /\ Len(sol) < BatteryHours
    /\ LET i == Len(sol) + 1 IN
       \E bin_charge \in Binary, bin_discharge \in Binary,
          bin_switch \in Binary, aux_remainder \in 0..3,
          aux_quotient \in (-QuotientBound)..QuotientBound,
          cyclic_switch_bin \in
              IF "cyclic_switch_bin" \in block.vars THEN Binary ELSE {0} :
         LET bins == [bin_charge |-> bin_charge,
                      bin_discharge |-> bin_discharge,
                      bin_switch |-> bin_switch,
                      aux_remainder |-> aux_remainder,
                      aux_quotient |-> aux_quotient,
                      cyclic_switch_bin |-> cyclic_switch_bin]
             b1 == Append(sol, bins)
         IN
         /\ Con("binary_constraint") => BatteryStorage_binary_rule(b1, i)
         /\ Con("switch_from_charge_to_discharge_constraint")
              => BatteryStorage_switch_from_charge_to_discharge_rule(b1, i)
         /\ Con("switch_from_discharge_to_charge_constraint")
              => BatteryStorage_switch_from_discharge_to_charge_rule(b1, i)
         /\ Con("no_operational_switch_constraint")
              => BatteryStorage_no_operational_switch_rule(b1, i)
         /\ Con("modulo_constraint")
              => BatteryStorage_modulo_switch_rule(b1, i)
         /\ Con("cyclic_switch_constraint")
              => BatteryStorage_cyclic_switch_rule(b1, i)
         /\ Con("cyclic_behavior_constaint")
              => BatteryStorage_cyclic_behaviour_rule(b1, i)
         /\ \E power_charging \in 0..PowerBound,
               power_discharging \in 0..PowerBound :
              LET b2 == Append(sol,
                            [power_charging |-> power_charging,
                             power_discharging |-> power_discharging,
                             bin_charge |-> bin_charge,
                             bin_discharge |-> bin_discharge])
              IN
              /\ Con("max_power_charging_constraint")
                   => BatteryStorage_max_power_charging_rule(b2, i)
              /\ Con("max_power_discharging_constraint")
                   => BatteryStorage_max_power_discharging_rule(b2, i)
              /\ \E power_balance \in (-PowerBound)..PowerBound,
                    power_content \in 0..ContentBound :
                   LET b3 == Append(sol,
                                 [power_balance |-> power_balance,
                                  power_charging |-> power_charging,
                                  power_discharging |-> power_discharging,
                                  power_content |-> power_content,
                                  bin_discharge |-> bin_discharge,
                                  bin_charge |-> bin_charge,
                                  bin_switch |-> bin_switch,
                                  aux_remainder |-> aux_remainder,
                                  aux_quotient |-> aux_quotient,
                                  cyclic_switch_bin |-> cyclic_switch_bin])
                   IN
                   /\ Con("power_balance_constraint")
                        => BatteryStorage_power_balance_rule(b3, i)
                   /\ Con("max_power_content_constraint")
                        => BatteryStorage_max_power_content_rule(b3, i)
                   /\ Con("min_power_content_constraint")
                        => BatteryStorage_min_power_content_rule(b3, i)
                   /\ Con("actual_power_content_constraint")
                        => BatteryStorage_actual_power_content_rule(b3, i)
                   /\ sol' = b3
    /\ UNCHANGED <<pc, cfg, block>>

InitBattery ==
    /\ pc = "new"
    /\ cfg \in [asset : {"battery_storage"}, data : BatteryData,
                kwargs : BatteryKwargs]
    /\ block = EmptyBlock
    /\ sol = <<>>

NextBattery ==
    BatteryStorage_init \/ BatteryStorage_add_to_model \/ BatteryStorage_solve

SpecBattery == InitBattery /\ [][NextBattery]_vars

(***************************************************************************)
(* Properties of the battery block                                         *)
(***************************************************************************)

BatteryBuilt == pc = "built" /\ cfg.asset = "battery_storage"

\* C8: battery mutual exclusivity.  For every hour bin_charge +
\* bin_discharge = 1, power_charging <= power_max * bin_charge and
\* power_discharging <= power_max * bin_discharge, so power_charging and
\* power_discharging are never both positive in the same hour.
C8_BatteryMutualExclusivity ==
    BatteryBuilt =>
        \A i \in 1..Len(sol) :
            /\ sol[i].bin_charge + sol[i].bin_discharge = 1
            /\ sol[i].power_charging <= cfg.data.power[2] * sol[i].bin_charge
            /\ sol[i].power_discharging
                   <= cfg.data.power[2] * sol[i].bin_discharge
            /\ ~(sol[i].power_charging > 0 /\ sol[i].power_discharging > 0)

\* C8 witness: the battery charges in one hour and discharges in another.
C8_Witness ==
    /\ BatteryBuilt
    /\ \E i, j \in 1..Len(sol) :
           sol[i].power_charging > 0 /\ sol[j].power_discharging > 0

\* C9: battery content recurrence.  power_content(1) = 0 - power_balance(1)
\* and for t >= 2 power_content(t) = power_content(t-1) - power_balance(t),
\* with power_balance = power_discharging - power_charging and no loss term;
\* hence power_content(t) is the sum over j <= t of (power_charging(j) -
\* power_discharging(j)) and stays within [content_min, content_max].
C9_BatteryContentRecurrence ==
    BatteryBuilt =>
        \A i \in 1..Len(sol) :
            /\ sol[i].power_balance
                   = sol[i].power_discharging - sol[i].power_charging
            /\ i = 1 => sol[i].power_content = 0 - sol[i].power_balance
            /\ i >= 2 => sol[i].power_content
                             = sol[i - 1].power_content - sol[i].power_balance
            /\ sol[i].power_content
                   = SumSeq([j \in 1..i |-> sol[j].power_charging
                                               - sol[j].power_discharging], i)
            /\ cfg.data.capacity[1] <= sol[i].power_content
            /\ sol[i].power_content <= cfg.data.capacity[2]

\* C9 witness: three hours in which the content rises, rises and falls.
C9_Witness ==
    /\ BatteryBuilt
    /\ Len(sol) >= 3
    /\ sol[1].power_content > 0
    /\ sol[2].power_content > sol[1].power_content
    /\ sol[3].power_content < sol[2].power_content

\* C10: battery switch detection.  For every hour t >= 2, bin_switch(t) = 1
\* if and only if (bin_charge(t) - bin_discharge(t)) differs from
\* (bin_charge(t-1) - bin_discharge(t-1)); and bin_switch(1) = 0.
C10_BatterySwitchDetection ==
    BatteryBuilt =>
        \A i \in 1..Len(sol) :
            /\ i = 1 => sol[i].bin_switch = 0
            /\ i >= 2 =>
                   ( sol[i].bin_switch = 1
                     <=> (sol[i].bin_charge - sol[i].bin_discharge)
                           # (sol[i - 1].bin_charge - sol[i - 1].bin_discharge) )

\* C10 witness: a switch from charging to discharging, a switch back, and an
\* hour without a switch.
C10_Witness ==
    /\ BatteryBuilt
    /\ \E i, j, k \in 2..Len(sol) :
           /\ sol[i].bin_switch = 1 /\ sol[i].bin_discharge = 1
           /\ sol[j].bin_switch = 1 /\ sol[j].bin_charge = 1
           /\ sol[k].bin_switch = 0

\* the hours k*c+1 .. (k+1)*c of the k-th window of length c
Window(k, c) == (k * c + 1)..((k + 1) * c)

\* The monomials of each constraint of the battery block as its rule writes
\* it for an hour i > 1: a monomial is the sequence of the decision
\* variables it multiplies, <<>> for a constant.
BatteryStorage_constraint_monomials ==
    [c \in BatteryStorage_block.constraints |->
       CASE c = "max_power_charging_constraint"
              -> { <<"power_charging">>, <<"bin_charge">> }
         [] c = "max_power_discharging_constraint"
              -> { <<"power_discharging">>, <<"bin_discharge">> }
         [] c = "power_balance_constraint"
              -> { <<"power_balance">>, <<"power_discharging">>,
                   <<"power_charging">> }
         [] c = "binary_constraint"
              -> { <<"bin_charge">>, <<"bin_discharge">>, <<>> }
         [] c \in { "max_power_content_constraint",
                    "min_power_content_constraint" }
              -> { <<"power_content">>, <<>> }
         [] c = "actual_power_content_constraint"
              -> { <<"power_content">>, <<"power_balance">> }
         [] c \in { "switch_from_charge_to_discharge_constraint",
                    "switch_from_discharge_to_charge_constraint" }
              -> { <<"bin_charge">>, <<"bin_discharge">>, <<"bin_switch">> }
         [] c = "no_operational_switch_constraint"
              -> { <<"aux_remainder", "bin_switch">>, <<>> }
         [] c = "modulo_constraint"
              -> { <<"bin_charge">>, <<"bin_discharge">>, <<>>,
                   <<"aux_quotient">>, <<"aux_remainder">> }
         [] c = "cyclic_switch_constraint"
              -> { <<"cyclic_switch_bin">>, <<"bin_switch">> }
         [] c = "cyclic_behavior_constaint"
              -> { <<"cyclic_switch_bin">>, <<>> } ]

\* C27: MILP form.  Every constraint that an asset block emits is affine in
\* the decision variables: no monomial of a constraint of the battery block
\* multiplies two decision variables.
C27_MilpForm ==
    BatteryBuilt =>
        \A c \in block.constraints :
            \A monomial \in BatteryStorage_constraint_monomials[c] :
                /\ \A k \in DOMAIN monomial : monomial[k] \in block.vars
                /\ Len(monomial) <= 1

\* C29: the battery never delivers energy it has not received.  In every
\* feasible solution, for every hour t the cumulative discharge up to t is
\* at most the cumulative charge up to t, and power_discharging(1) = 0.
C29_BatteryNoFreeEnergy ==
    BatteryBuilt =>
        /\ \A t \in 1..Len(sol) :
               SumSeq([j \in 1..t |-> sol[j].power_discharging], t)
                   <= SumSeq([j \in 1..t |-> sol[j].power_charging], t)
        /\ Len(sol) >= 1 => sol[1].power_discharging = 0

\* C29 witness: the battery was charged and has, by some later hour,
\* delivered all of it.
C29_Witness ==
    /\ BatteryBuilt
    /\ \E t \in 2..Len(sol) :
           /\ sol[t].power_discharging > 0
           /\ SumSeq([j \in 1..t |-> sol[j].power_discharging], t)
                  = SumSeq([j \in 1..t |-> sol[j].power_charging], t)

\* C11 as stated: with cyclic_behaviour = c, each c-hour window
\* {k*c+1, ..., (k+1)*c} contains at most one charge<->discharge transition:
\* the sum of bin_switch(t) over the hours of each window is <= 1.
C11_BatteryCyclicBound ==
    (BatteryBuilt /\ "cyclic_behaviour" \in DOMAIN cfg.kwargs) =>
        LET c == cfg.kwargs["cyclic_behaviour"] IN
        \A k \in 0..(BatteryHours \div c) :
            (k + 1) * c <= Len(sol) =>
                SumOver([i \in Window(k, c) |-> sol[i].bin_switch],
                        Window(k, c)) <= 1

\* C11: battery cyclic bound.  With cyclic_behaviour = c, the sum of
\* bin_switch(t) over the hours of each window {k*c+1, ..., (k+1)*c} other
\* than its first hour k*c+1 is <= 1, and cyclic_switch_bin equals bin_switch
\* on those hours and is 0 on the first hour of each window: the transition
\* into a window is not counted.
C11_CyclicBoundPastFirstHour ==
    (BatteryBuilt /\ "cyclic_behaviour" \in DOMAIN cfg.kwargs) =>
        LET c == cfg.kwargs["cyclic_behaviour"] IN
        /\ \A i \in 1..Len(sol) :
               sol[i].cyclic_switch_bin
                   = IF (i - 1) % c = 0 THEN 0 ELSE sol[i].bin_switch
        /\ \A k \in 0..(BatteryHours \div c) :
               (k + 1) * c <= Len(sol) =>
                   SumOver([i \in Window(k, c) |-> sol[i].bin_switch],
                           Window(k, c) \ {k * c + 1}) <= 1

\* C11 witness: a complete window that holds two transitions, the uncounted
\* one at its first hour and a counted one after it.
C11_Witness ==
    /\ BatteryBuilt /\ "cyclic_behaviour" \in DOMAIN cfg.kwargs
    /\ LET c == cfg.kwargs["cyclic_behaviour"] IN
       \E k \in 1..(BatteryHours \div c) :
           /\ (k + 1) * c <= Len(sol)
           /\ sol[k * c + 1].bin_switch = 1
           /\ \E i \in Window(k, c) \ {k * c + 1} : sol[i].bin_switch = 1

(***************************************************************************)
(* Heat buses, burn4h2/blocks/grid.py.  Flows are in quarter MW.           *)
(***************************************************************************)

\* model.heat_demand / model.local_heat_demand: one value per hour of t
DemandProfiles ==
    { [i \in Hours |-> IF i = 1 THEN DemandBound ELSE 0],
      [i \in Hours |-> 1],
      [i \in Hours |-> DemandBound] }

\* the csv of the local heat grid: <<min, max>> of column heat
LocalHeatGridData == { [heat |-> <<0, 1>>], [heat |-> <<0, 3>>] }

\* the csv of the heat grid is read and not used by the block rule
HeatGridData == { [heat |-> <<0, 0>>] }

max_excess_heat == 40   \* Param(initialize=10) [MW]
max_FW_to_NW == 40      \* Param(initialize=10) [MW]
min_flow == 2           \* Param(initialize=0.5) [MW]

\* candidate values of a variable no constraint of its block mentions
FreeValues == {0, 1}

\* candidate values of the two transfer flows: around 0, min_flow and the
\* Big-M limit
TransferValues ==
    (0..(min_flow + 1)) \cup ((max_excess_heat - 1)..(max_excess_heat + 1))

\* HeatGrid.__init__ and LocalHeatGrid.__init__ take no keyword options.
HeatGrid_init ==
    /\ pc = "new"
    /\ cfg.asset = "heat_grid"
    /\ pc' = "constructed"
    /\ UNCHANGED <<cfg, block, sol>>

LocalHeatGrid_init ==
    /\ pc = "new"
    /\ cfg.asset = "local_heat_grid"
    /\ pc' = "constructed"
    /\ UNCHANGED <<cfg, block, sol>>

HeatGrid_heat_balance_rule(_block, i) ==
    _block[i].heat_balance
        = cfg.heat_demand[i] + _block[i].heat_supply + _block[i].FW_to_NW
            - _block[i].heat_feedin - _block[i].excess_heat_feedin

\* a bus that may leave demand unserved
HeatGrid_supply_heat_demand_rule_slack(_block, i) ==
    _block[i].heat_balance >= 0

HeatGrid_supply_heat_demand_rule(_block, i) ==
    _block[i].heat_balance = 0

HeatGrid_excess_heat_active_rule(_block, i) ==
    _block[i].excess_heat_feedin
        <= max_excess_heat * _block[i].bin_excess_active

HeatGrid_FW_to_NW_active_rule(_block, i) ==
    _block[i].FW_to_NW <= max_FW_to_NW * _block[i].bin_FW_to_NW_active

HeatGrid_excess_heat_min_rule(_block, i) ==
    _block[i].excess_heat_feedin >= min_flow * _block[i].bin_excess_active

HeatGrid_FW_to_NW_min_rule(_block, i) ==
    _block[i].FW_to_NW >= min_flow * _block[i].bin_FW_to_NW_active

\* both transfer directions allowed in the same hour
HeatGrid_exclusive_heat_flow_rule_both(_block, i) ==
    _block[i].bin_excess_active + _block[i].bin_FW_to_NW_active <= 2

HeatGrid_exclusive_heat_flow_rule(_block, i) ==
    _block[i].bin_excess_active + _block[i].bin_FW_to_NW_active <= 1

\* The block that heat_grid_block_rule leaves behind.
HeatGrid_block ==
    [vars |-> {"heat_balance", "heat_feedin", "heat_supply",
               "excess_heat_feedin", "FW_to_NW", "bin_excess_active",
               "bin_FW_to_NW_active"},
     ports |-> { <<"heat_in", "heat", "heat_feedin">>,
                 <<"heat_out", "heat", "heat_supply">>,
                 <<"excess_heat_in", "nw_excess_heat", "excess_heat_feedin">>,
                 <<"heat_grid_to_local_out", "fw_heat", "FW_to_NW">> },
     constraints |-> { "heat_balance_constraint",
                       "supply_heat_demand_constraint",
                       "excess_heat_active", "FW_to_NW_active",
                       "exclusive_heat_flow", "excess_heat_min",
                       "FW_to_NW_min" }]

HeatGrid_add_to_model ==
    /\ pc = "constructed"
    /\ cfg.asset = "heat_grid"
    /\ pc' = "built"
    /\ block' = HeatGrid_block
    /\ UNCHANGED <<cfg, sol>>

HeatGrid_solve ==
    /\ pc = "built"
    /\ cfg.asset = "heat_grid"
    /\ Len(sol) < NHours
    /\ LET i == Len(sol) + 1 IN
       \E bin_excess_active \in Binary, bin_FW_to_NW_active \in Binary,
          excess_heat_feedin \in TransferValues, FW_to_NW \in TransferValues :
         LET b1 == Append(sol,
                       [bin_excess_active |-> bin_excess_active,
                        bin_FW_to_NW_active |-> bin_FW_to_NW_active,
                        excess_heat_feedin |-> excess_heat_feedin,
                        FW_to_NW |-> FW_to_NW])
         IN
         /\ Con("exclusive_heat_flow")
              => HeatGrid_exclusive_heat_flow_rule(b1, i)
         /\ Con("excess_heat_active")
              => HeatGrid_excess_heat_active_rule(b1, i)
         /\ Con("FW_to_NW_active") => HeatGrid_FW_to_NW_active_rule(b1, i)
         /\ Con("excess_heat_min") => HeatGrid_excess_heat_min_rule(b1, i)
         /\ Con("FW_to_NW_min") => HeatGrid_FW_to_NW_min_rule(b1, i)
         /\ \E heat_balance \in (-1)..1,
               heat_supply \in FreeValues \cup {max_excess_heat},
               heat_feedin \in 0..(DemandBound + 2 * max_FW_to_NW + 2) :
              LET b2 == Append(sol,
                            [heat_balance |-> heat_balance,
                             heat_feedin |-> heat_feedin,
                             heat_supply |-> heat_supply,
                             excess_heat_feedin |-> excess_heat_feedin,
                             FW_to_NW |-> FW_to_NW,
                             bin_excess_active |-> bin_excess_active,
                             bin_FW_to_NW_active |-> bin_FW_to_NW_active])
              IN
              /\ Con("heat_balance_constraint")
                   => HeatGrid_heat_balance_rule(b2, i)
              /\ Con("supply_heat_demand_constraint")
                   => HeatGrid_supply_heat_demand_rule(b2, i)
              /\ sol' = b2
    /\ UNCHANGED <<pc, cfg, block>>

LocalHeatGrid_supply_heat_demand_balance_rule(_block, i) ==
    _block[i].heat_balance = 0

LocalHeatGrid_supply_heat_demand_rule(_block, i) ==
    _block[i].heat_balance
        = _block[i].Z1_heat_feedin + _block[i].Z2_heat_feedin
            + _block[i].district_heat_feedin - cfg.heat_demand[i]

LocalHeatGrid_max_district_heat_feedin_rule(_block, i) ==
    _block[i].district_heat_feedin <= cfg.data.heat[2]

\* the covenant with a share of one half
LocalHeatGrid_annual_local_heat_share_rule_half(_block, i) ==
    10 * SumSeq([j \in 1..Len(_block) |-> _block[j].district_heat_feedin],
                Len(_block))
        <= 5 * SumSeq(cfg.heat_demand, NHours)

\* sum(district_heat_feedin[i] for i in t) <= 0.2 * sum(local_heat_demand[i]
\* for i in t), the same constraint for every index.  The hours the solver
\* has not reached yet stand at the lower bound 0 of district_heat_feedin, so
\* on a complete assignment this is the sum over t.
LocalHeatGrid_annual_local_heat_share_rule(_block, i) ==
    10 * SumSeq([j \in 1..Len(_block) |-> _block[j].district_heat_feedin],
                Len(_block))
        <= 2 * SumSeq(cfg.heat_demand, NHours)

\* The block that local_heat_grid_block_rule leaves behind.
LocalHeatGrid_block ==
    [vars |-> {"heat_balance", "heat_supply", "Z1_heat_feedin",
               "Z2_heat_feedin", "district_heat_feedin"},
     ports |-> { <<"Z1_NW_heat_in", "local_heat", "Z1_heat_feedin">>,
                 <<"Z2_NW_heat_in", "local_heat", "Z2_heat_feedin">>,
                 <<"heat_out", "local_heat", "heat_supply">>,
                 <<"district_heat_in", "fw_heat", "district_heat_feedin">> },
     constraints |-> { "supply_heat_demand_balance_constraint",
                       "supply_heat_demand_constraint",
                       "max_district_heat_feedin_constraint",
                       "annual_local_heat_share_constraint" }]

LocalHeatGrid_add_to_model ==
    /\ pc = "constructed"
    /\ cfg.asset = "local_heat_grid"
    /\ pc' = "built"
    /\ block' = LocalHeatGrid_block
    /\ UNCHANGED <<cfg, sol>>

LocalHeatGrid_solve ==
    /\ pc = "built"
    /\ cfg.asset = "local_heat_grid"
    /\ Len(sol) < NHours
    /\ LET i == Len(sol) + 1 IN
       \E heat_balance \in (-1)..1, heat_supply \in FreeValues,
          Z1_heat_feedin \in 0..DemandBound, Z2_heat_feedin \in 0..DemandBound,
          district_heat_feedin \in 0..DemandBound :
         LET b1 == Append(sol,
                       [heat_balance |-> heat_balance,
                        heat_supply |-> heat_supply,
                        Z1_heat_feedin |-> Z1_heat_feedin,
                        Z2_heat_feedin |-> Z2_heat_feedin,
                        district_heat_feedin |-> district_heat_feedin])
         IN
         /\ Con("supply_heat_demand_balance_constraint")
              => LocalHeatGrid_supply_heat_demand_balance_rule(b1, i)
         /\ Con("supply_heat_demand_constraint")
              => LocalHeatGrid_supply_heat_demand_rule(b1, i)
         /\ Con("max_district_heat_feedin_constraint")
              => LocalHeatGrid_max_district_heat_feedin_rule(b1, i)
         /\ Con("annual_local_heat_share_constraint")
              => LocalHeatGrid_annual_local_heat_share_rule(b1, i)
         /\ sol' = b1
    /\ UNCHANGED <<pc, cfg, block>>

InitGrid ==
    /\ pc = "new"
    /\ cfg \in [asset : {"heat_grid"}, data : HeatGridData,
                heat_demand : DemandProfiles]
              \cup [asset : {"local_heat_grid"}, data : LocalHeatGridData,
                    heat_demand : DemandProfiles]
    /\ block = EmptyBlock
    /\ sol = <<>>

NextGrid ==
    \/ HeatGrid_init
    \/ HeatGrid_add_to_model
    \/ HeatGrid_solve
    \/ LocalHeatGrid_init
    \/ LocalHeatGrid_add_to_model
    \/ LocalHeatGrid_solve

SpecGrid == InitGrid /\ [][NextGrid]_vars

(***************************************************************************)
(* Properties of the heat buses                                            *)
(***************************************************************************)

\* C6: demand-terminated bus balance.  For every hour t the district-heat
\* bus satisfies heat_demand(t) + heat_supply(t) + FW_to_NW(t)
\* - heat_feedin(t) - excess_heat_feedin(t) = 0, and the local-heat bus
\* satisfies Z1_heat_feedin(t) + Z2_heat_feedin(t) + district_heat_feedin(t)
\* - local_heat_demand(t) = 0: both demands are met exactly, without slack.
C6_DemandTerminatedBusBalance ==
    /\ (pc = "built" /\ cfg.asset = "heat_grid") =>
           \A i \in 1..Len(sol) :
               cfg.heat_demand[i] + sol[i].heat_supply + sol[i].FW_to_NW
                   - sol[i].heat_feedin - sol[i].excess_heat_feedin = 0
    /\ (pc = "built" /\ cfg.asset = "local_heat_grid") =>
           \A i \in 1..Len(sol) :
               sol[i].Z1_heat_feedin + sol[i].Z2_heat_feedin
                   + sol[i].district_heat_feedin - cfg.heat_demand[i] = 0

\* C6 witness: a complete assignment of the district-heat bus that serves a
\* positive demand in every hour, charges the store in one hour and moves
\* heat to the local bus in one hour.
C6_Witness ==
    /\ pc = "built" /\ cfg.asset = "heat_grid"
    /\ Len(sol) = NHours
    /\ \A i \in 1..Len(sol) : cfg.heat_demand[i] > 0 /\ sol[i].heat_feedin > 0
    /\ \E i \in 1..Len(sol) : sol[i].heat_supply > 0
    /\ \E i \in 1..Len(sol) : sol[i].FW_to_NW > 0

\* A complete assignment of the local-heat bus that draws district heat.
LocalBusServed ==
    /\ pc = "built" /\ cfg.asset = "local_heat_grid"
    /\ Len(sol) = NHours
    /\ \E i \in 1..Len(sol) :
           sol[i].district_heat_feedin > 0 /\ sol[i].Z1_heat_feedin > 0

\* C12: exclusive transfer direction on the district-heat bus.  For every
\* hour bin_excess_active * bin_FW_to_NW_active = 0, so excess_heat_feedin
\* and FW_to_NW are never both positive, and each of the two flows is either
\* exactly 0 or lies in [0.5, 10] MW (min_flow .. max in quarter MW).
C12_ExclusiveTransfer ==
    (pc = "built" /\ cfg.asset = "heat_grid") =>
        \A i \in 1..Len(sol) :
            /\ sol[i].bin_excess_active * sol[i].bin_FW_to_NW_active = 0
            /\ ~(sol[i].excess_heat_feedin > 0 /\ sol[i].FW_to_NW > 0)
            /\ \/ sol[i].excess_heat_feedin = 0
               \/ /\ min_flow <= sol[i].excess_heat_feedin
                  /\ sol[i].excess_heat_feedin <= max_excess_heat
            /\ \/ sol[i].FW_to_NW = 0
               \/ /\ min_flow <= sol[i].FW_to_NW
                  /\ sol[i].FW_to_NW <= max_FW_to_NW

\* C12 witness: the two flows at the ends of their range, excess heat at
\* the 10 MW limit in one hour and FW_to_NW at min_flow in the other.
C12_Witness ==
    /\ pc = "built" /\ cfg.asset = "heat_grid"
    /\ \E i, j \in 1..Len(sol) :
           /\ sol[i].excess_heat_feedin = max_excess_heat
           /\ sol[j].FW_to_NW = min_flow

\* C13: annual local-share covenant.  In every complete assignment the sum
\* over the horizon of district_heat_feedin is at most 0.20 times the sum of
\* local_heat_demand, and with the local balance at least 80% of the local
\* demand is served by the two feed-ins of the stratified store.
C13_AnnualLocalShare ==
    (pc = "built" /\ cfg.asset = "local_heat_grid" /\ Len(sol) = NHours) =>
        /\ 10 * SumSeq([i \in Hours |-> sol[i].district_heat_feedin], NHours)
               <= 2 * SumSeq(cfg.heat_demand, NHours)
        /\ 10 * SumSeq([i \in Hours |-> sol[i].Z1_heat_feedin
                                         + sol[i].Z2_heat_feedin], NHours)
               >= 8 * SumSeq(cfg.heat_demand, NHours)

\* C13 witness: a complete assignment whose district heat is exactly 20% of
\* a positive demand.
C13_Witness ==
    /\ pc = "built" /\ cfg.asset = "local_heat_grid" /\ Len(sol) = NHours
    /\ SumSeq([i \in Hours |-> sol[i].district_heat_feedin], NHours) > 0
    /\ 10 * SumSeq([i \in Hours |-> sol[i].district_heat_feedin], NHours)
           = 2 * SumSeq(cfg.heat_demand, NHours)

(***************************************************************************)
(* The composed model, burn4h2/main.py: components, arcs, arc expansion.   *)
(* Ports are records [asset, port, member, var]; an arc joins the port     *)
(* source to the port destination, both <<asset, port>>.                   *)
(***************************************************************************)

ModelParameterKeys == {"HYDROGEN_ADMIXTURE_CHP_1", "HYDROGEN_ADMIXTURE_CHP_2"}

\* the "parameters" object of a scenario file, admixtures in tenths
ModelParameters == [ModelParameterKeys -> {0, 3, 7}]

\* dict.get(key, default)
config_get(parameters, key, default) ==
    IF key \in DOMAIN parameters THEN parameters[key] ELSE default

h2_admixture_chp_1 == config_get(cfg.parameters, "HYDROGEN_ADMIXTURE_CHP_1", 0)

h2_admixture_chp_2 == config_get(cfg.parameters, "HYDROGEN_ADMIXTURE_CHP_2", 0)

Model_add_components_unvalidated ==
    /\ pc = "new"
    /\ cfg.asset = "model"
    /\ pc' = "declared"
    /\ UNCHANGED <<cfg, block, sol>>

\* Model.add_components: the admixtures are validated before any asset is
\* constructed.
Model_add_components ==
    /\ pc = "new"
    /\ cfg.asset = "model"
    /\ pc' = IF \/ h2_admixture_chp_1 \notin ALLOWED_ADMIXTURE_VALUES
                \/ h2_admixture_chp_2 \notin ALLOWED_ADMIXTURE_VALUES
             THEN "ValueError"
             ELSE "declared"
    /\ UNCHANGED <<cfg, block, sol>>

Port(asset, port, member, var) ==
    [asset |-> asset, port |-> port, member |-> member, var |-> var]

\* the ports of a Chp block that carry power, natural gas and hydrogen
Chp_ports(name, admixture) ==
    { Port(name, "power_out", "power", "power"),
      Port(name, "natural_gas_in", "natural_gas",
           IF admixture > 0 THEN "natural_gas" ELSE "gas"),
      Port(name, "hydrogen_in", "hydrogen", "hydrogen") }

ElectricalGrid_ports ==
    { Port("electrical_grid", "power_in", "power", "power_feedin"),
      Port("electrical_grid", "power_out", "power", "power_supply") }

HydrogenGrid_ports ==
    { Port("hydrogen_grid", "hydrogen_out", "hydrogen", "hydrogen_supply") }

NGasGrid_ports ==
    { Port("ngas_grid", "ngas_out", "natural_gas", "ngas_supply") }

Photovoltaics_ports == { Port("pv", "power_out", "power", "power") }

BatteryStorage_ports ==
    { Port("battery_storage", "power_in", "power", "power_charging"),
      Port("battery_storage", "power_out", "power", "power_discharging") }

HeatpumpStageOne_ports == { Port("heatpump_s1", "power_in", "power", "power") }

HeatpumpStageTwo_ports == { Port("heatpump_s2", "power_in", "power", "power") }

\* Model.instantiate: create_instance runs the block rules; of the instance
\* the model keeps the ports whose member is power, natural_gas or hydrogen.
Model_instantiate ==
    /\ pc = "declared"
    /\ pc' = "instance"
    /\ block' = [vars |-> {}, constraints |-> {}, arcs |-> {},
                 ports |-> Chp_ports("chp_1", h2_admixture_chp_1)
                           \cup Chp_ports("chp_2", h2_admixture_chp_2)
                           \cup ElectricalGrid_ports \cup HydrogenGrid_ports
                           \cup NGasGrid_ports \cup Photovoltaics_ports
                           \cup BatteryStorage_ports
                           \cup HeatpumpStageOne_ports
                           \cup HeatpumpStageTwo_ports]
    /\ UNCHANGED <<cfg, sol>>
Arc(name, source, destination) ==
    [name |-> name, source |-> source, destination |-> destination]

\* the arcs of add_arcs with arc20 and arc21 (the heat pumps' power) left out
Model_arcs_without_heatpump_power ==
    {
      Arc("arc01", <<"chp_1", "power_out">>,
          <<"electrical_grid", "power_in">>),
      Arc("arc02", <<"chp_2", "power_out">>,
          <<"electrical_grid", "power_in">>),
      Arc("arc03", <<"pv", "power_out">>,
          <<"electrical_grid", "power_in">>),
      Arc("arc04", <<"battery_storage", "power_out">>,
          <<"electrical_grid", "power_in">>),
      Arc("arc05", <<"electrical_grid", "power_out">>,
          <<"battery_storage", "power_in">>),
      Arc("arc06", <<"ngas_grid", "ngas_out">>,
          <<"chp_1", "natural_gas_in">>),
      Arc("arc07", <<"ngas_grid", "ngas_out">>,
          <<"chp_2", "natural_gas_in">>),
      Arc("arc08", <<"hydrogen_grid", "hydrogen_out">>,
          <<"chp_1", "hydrogen_in">>),
      Arc("arc09", <<"hydrogen_grid", "hydrogen_out">>,
          <<"chp_2", "hydrogen_in">>),
      Arc("arc10", <<"chp_1", "heat_out">>,
          <<"heat_grid", "heat_in">>),
      Arc("arc11", <<"chp_2", "heat_out">>,
          <<"heat_grid", "heat_in">>),
      Arc("arc12", <<"heat_storage", "heat_out">>,
          <<"heat_grid", "heat_in">>),
      Arc("arc13", <<"heat_grid", "heat_out">>,
          <<"heat_storage", "heat_in">>),
      Arc("arc14", <<"chp_1", "waste_heat_out">>,
          <<"waste_heat_grid", "waste_heat_in">>),
      Arc("arc15", <<"chp_2", "waste_heat_out">>,
          <<"waste_heat_grid", "waste_heat_in">>),
      Arc("arc16", <<"waste_heat_grid", "waste_heat_out">>,
          <<"geo_heat_storage", "heat_in">>),
      Arc("arc17", <<"geo_heat_storage", "heat_out">>,
          <<"heatpump_s1", "heat_in">>),
      Arc("arc18", <<"heatpump_s1", "heat_out">>,
          <<"heatpump_s2", "waste_heat_in">>),
      Arc("arc19", <<"waste_heat_grid", "waste_heat_out">>,
          <<"heatpump_s2", "waste_heat_in">>),
      Arc("arc22", <<"solar_thermal", "heat_out">>,
          <<"stratified_storage", "st_heat_in">>),
      Arc("arc23", <<"heatpump_s2", "heat_out">>,
          <<"stratified_storage", "wp_heat_in">>),
      Arc("arc24", <<"stratified_storage", "Z1_FW_heat_out">>,
          <<"heat_grid", "excess_heat_in">>),
      Arc("arc25", <<"stratified_storage", "Z1_NW_heat_out">>,
          <<"local_heat_grid", "Z1_NW_heat_in">>),
      Arc("arc26", <<"stratified_storage", "Z2_NW_heat_out">>,
          <<"local_heat_grid", "Z2_NW_heat_in">>),
      Arc("arc27", <<"heat_grid", "heat_grid_to_local_out">>,
          <<"local_heat_grid", "district_heat_in">>)
    }

\* The arcs declared by Model.add_arcs.
Model_arcs ==
    {
      Arc("arc01", <<"chp_1", "power_out">>,
          <<"electrical_grid", "power_in">>),
      Arc("arc02", <<"chp_2", "power_out">>,
          <<"electrical_grid", "power_in">>),
      Arc("arc03", <<"pv", "power_out">>,
          <<"electrical_grid", "power_in">>),
      Arc("arc04", <<"battery_storage", "power_out">>,
          <<"electrical_grid", "power_in">>),
      Arc("arc05", <<"electrical_grid", "power_out">>,
          <<"battery_storage", "power_in">>),
      Arc("arc06", <<"ngas_grid", "ngas_out">>,
          <<"chp_1", "natural_gas_in">>),
      Arc("arc07", <<"ngas_grid", "ngas_out">>,
          <<"chp_2", "natural_gas_in">>),
      Arc("arc08", <<"hydrogen_grid", "hydrogen_out">>,
          <<"chp_1", "hydrogen_in">>),
      Arc("arc09", <<"hydrogen_grid", "hydrogen_out">>,
          <<"chp_2", "hydrogen_in">>),
      Arc("arc10", <<"chp_1", "heat_out">>,
          <<"heat_grid", "heat_in">>),
      Arc("arc11", <<"chp_2", "heat_out">>,
          <<"heat_grid", "heat_in">>),
      Arc("arc12", <<"heat_storage", "heat_out">>,
          <<"heat_grid", "heat_in">>),
      Arc("arc13", <<"heat_grid", "heat_out">>,
          <<"heat_storage", "heat_in">>),
      Arc("arc14", <<"chp_1", "waste_heat_out">>,
          <<"waste_heat_grid", "waste_heat_in">>),
      Arc("arc15", <<"chp_2", "waste_heat_out">>,
          <<"waste_heat_grid", "waste_heat_in">>),
      Arc("arc16", <<"waste_heat_grid", "waste_heat_out">>,
          <<"geo_heat_storage", "heat_in">>),
      Arc("arc17", <<"geo_heat_storage", "heat_out">>,
          <<"heatpump_s1", "heat_in">>),
      Arc("arc18", <<"heatpump_s1", "heat_out">>,
          <<"heatpump_s2", "waste_heat_in">>),
      Arc("arc19", <<"waste_heat_grid", "waste_heat_out">>,
          <<"heatpump_s2", "waste_heat_in">>),
      Arc("arc20", <<"electrical_grid", "power_out">>,
          <<"heatpump_s1", "power_in">>),
      Arc("arc21", <<"electrical_grid", "power_out">>,
          <<"heatpump_s2", "power_in">>),
      Arc("arc22", <<"solar_thermal", "heat_out">>,
          <<"stratified_storage", "st_heat_in">>),
      Arc("arc23", <<"heatpump_s2", "heat_out">>,
          <<"stratified_storage", "wp_heat_in">>),
      Arc("arc24", <<"stratified_storage", "Z1_FW_heat_out">>,
          <<"heat_grid", "excess_heat_in">>),
      Arc("arc25", <<"stratified_storage", "Z1_NW_heat_out">>,
          <<"local_heat_grid", "Z1_NW_heat_in">>),
      Arc("arc26", <<"stratified_storage", "Z2_NW_heat_out">>,
          <<"local_heat_grid", "Z2_NW_heat_in">>),
      Arc("arc27", <<"heat_grid", "heat_grid_to_local_out">>,
          <<"local_heat_grid", "district_heat_in">>)
    }

Model_add_arcs ==
    /\ pc = "instance"
    /\ pc' = "arcs"
    /\ block' = [block EXCEPT !.arcs = Model_arcs]
    /\ UNCHANGED <<cfg, sol>>

PortKey(p) == <<p.asset, p.port>>

\* port.dests() and port.sources(): the arcs that leave and enter a port
dests(port, arcs) == { a \in arcs : a.source = PortKey(port) }

sources(port, arcs) == { a \in arcs : a.destination = PortKey(port) }

\* network.expand_arcs on Port.Extensive members without split fractions:
\* every arc gets one variable per member (here: one per arc, named after the
\* arc); a port with outgoing arcs gets the constraint <port>_<member>_outsum
\* and a port with incoming arcs the constraint <port>_<member>_insum, each
\* stating that the arcs' variables sum to the variable bound to the port.
Port_Extensive(ports, arcs) ==
    { [name |-> <<p.asset, p.port, p.member, "outsum">>,
       var |-> <<p.asset, p.var>>,
       evars |-> { a.name : a \in dests(p, arcs) }]
        : p \in { q \in ports : dests(q, arcs) # {} } }
    \cup
    { [name |-> <<p.asset, p.port, p.member, "insum">>,
       var |-> <<p.asset, p.var>>,
       evars |-> { a.name : a \in sources(p, arcs) }]
        : p \in { q \in ports : sources(q, arcs) # {} } }

\* Model.expand_arcs, for the arcs between the ports the model keeps.
Model_expand_arcs ==
    /\ pc = "arcs"
    /\ pc' = "expanded"
    /\ LET arcs == { a \in block.arcs :
                       /\ \E p \in block.ports : PortKey(p) = a.source
                       /\ \E p \in block.ports : PortKey(p) = a.destination }
       IN  block' = [block EXCEPT
                        !.vars = { <<p.asset, p.var>> : p \in block.ports },
                        !.constraints = Port_Extensive(block.ports, arcs)]
    /\ UNCHANGED <<cfg, sol>>

\* sum(evar[t] for evar in out_vars) == var[t]
Port_sum_rule(evar, constraint, value) ==
    SumOver(evar, constraint.evars) = value

\* All assignments of the variables in V that satisfy, given the arcs'
\* variables, every constraint of the block.
RECURSIVE Assignments(_, _)
Assignments(V, evar) ==
    IF V = {} THEN { <<>> }
    ELSE LET v == CHOOSE v \in V : TRUE
             feasible == { x \in 0..PowerBound :
                             \A c \in block.constraints :
                                 c.var = v => Port_sum_rule(evar, c, x) }
         IN  { (v :> x) @@ f : x \in feasible, f \in Assignments(V \ {v}, evar) }

\* The solver's assignment for one hour t of the expanded constraints, which
\* are indexed by t and join no two hours.
Model_solve ==
    /\ pc = "expanded"
    /\ sol = <<>>
    /\ \E evar \in [UNION { c.evars : c \in block.constraints } -> FreeValues] :
         \E var \in Assignments(block.vars, evar) :
           sol' = << [evar |-> evar, var |-> var] >>
    /\ UNCHANGED <<pc, cfg, block>>

InitArcs ==
    /\ pc = "new"
    /\ cfg \in [asset : {"model"}, parameters : ModelParameters]
    /\ block = EmptyBlock
    /\ sol = <<>>

NextArcs ==
    \/ Model_add_components
    \/ Model_instantiate
    \/ Model_add_arcs
    \/ Model_expand_arcs
    \/ Model_solve

SpecArcs == InitArcs /\ [][NextArcs]_vars

(***************************************************************************)
(* Properties of the composed model                                        *)
(***************************************************************************)

\* the variable bound to a port of the instance
BoundVar(asset, port) ==
    LET p == CHOOSE p \in block.ports : PortKey(p) = <<asset, port>>
    IN  <<p.asset, p.var>>

\* C7: arc composition on shared ports.  After the arcs declared in add_arcs
\* are expanded, in every hour the electrical bus's power_feedin equals
\* chp_1.power + chp_2.power + pv.power + battery.power_discharging, its
\* power_supply equals battery.power_charging + heatpump_s1.power
\* + heatpump_s2.power, the gas bus's ngas_supply equals the sum of both
\* CHPs' natural-gas port flows, and the hydrogen bus's hydrogen_supply
\* equals the sum of both CHPs' hydrogen.
C7_ArcComposition ==
    (pc = "expanded" /\ cfg.asset = "model" /\ sol # <<>>) =>
        LET v == sol[1].var IN
        /\ v[<<"electrical_grid", "power_feedin">>]
               = v[<<"chp_1", "power">>] + v[<<"chp_2", "power">>]
                   + v[<<"pv", "power">>]
                   + v[<<"battery_storage", "power_discharging">>]
        /\ v[<<"electrical_grid", "power_supply">>]
               = v[<<"battery_storage", "power_charging">>]
                   + v[<<"heatpump_s1", "power">>]
                   + v[<<"heatpump_s2", "power">>]
        /\ v[<<"ngas_grid", "ngas_supply">>]
               = v[BoundVar("chp_1", "natural_gas_in")]
                   + v[BoundVar("chp_2", "natural_gas_in")]
        /\ v[<<"hydrogen_grid", "hydrogen_supply">>]
               = v[<<"chp_1", "hydrogen">>] + v[<<"chp_2", "hydrogen">>]

\* C7 witness: an hour in which every producer feeds the electrical bus,
\* every consumer draws from it and both CHPs, one of them with admixture,
\* take natural gas and hydrogen.
C7_Witness ==
    /\ pc = "expanded" /\ cfg.asset = "model" /\ sol # <<>>
    /\ h2_admixture_chp_1 > 0 /\ h2_admixture_chp_2 = 0
    /\ sol[1].var[<<"electrical_grid", "power_feedin">>] = 4
    /\ sol[1].var[<<"electrical_grid", "power_supply">>] = 3
    /\ sol[1].var[<<"ngas_grid", "ngas_supply">>] = 2
    /\ sol[1].var[<<"hydrogen_grid", "hydrogen_supply">>] = 2

(***************************************************************************)
(* One scenario, run_simulation of burn4h2/main.py                         *)
(***************************************************************************)

\* except Exception: the error is printed and run_simulation returns False
run_simulation_except ==
    /\ pc = "ValueError"
    /\ cfg.asset = "model"
    /\ pc' = "failed"
    /\ UNCHANGED <<cfg, block, sol>>

\* after solve the results are written and run_simulation returns True
run_simulation_return ==
    /\ pc = "expanded"
    /\ sol # <<>>
    /\ pc' = "finished"
    /\ UNCHANGED <<cfg, block, sol>>

NextRun ==
    \/ NextArcs
    \/ run_simulation_except
    \/ run_simulation_return

SpecRun == InitArcs /\ [][NextRun]_vars

\* an admixture of the scenario (in tenths) outside {0, 0.3, 0.5, 1.0}
InvalidAdmixture ==
    /\ cfg.asset = "model"
    /\ \E key \in ModelParameterKeys :
           cfg.parameters[key] \notin {0, 3, 5, 10}

\* C20: admixture validation.  If HYDROGEN_ADMIXTURE_CHP_1 or
\* HYDROGEN_ADMIXTURE_CHP_2 of the scenario is not one of {0, 0.3, 0.5, 1.0},
\* add_components raises before any asset is constructed or added to the
\* model, the solver is never invoked for the scenario, and the scenario is
\* reported as failed.
C20_AdmixtureValidation ==
    /\ [](InvalidAdmixture =>
             /\ pc \in {"new", "ValueError", "failed"}
             /\ block = EmptyBlock
             /\ sol = <<>>)
    /\ [][InvalidAdmixture =>
             /\ pc = "new" => pc' = "ValueError"
             /\ pc = "ValueError" => pc' = "failed"]_vars

\* C20 witness: a scenario whose first admixture is valid and whose second
\* is 0.7 has been reported as failed.
C20_Witness ==
    /\ cfg.asset = "model"
    /\ cfg.parameters["HYDROGEN_ADMIXTURE_CHP_1"] = 3
    /\ cfg.parameters["HYDROGEN_ADMIXTURE_CHP_2"] = 7
    /\ pc = "failed"
    /\ block = EmptyBlock

(***************************************************************************)
(* Stratified heat store, blocks/storage.py.  Contents and flows are held  *)
(* in units of 1/Unit MWh (MW over one hour), Unit being the denominator   *)
(* of the loss rate, so that (1 - k_loss) * U is exact.                    *)
(***************************************************************************)

\* a rational number <<numerator, denominator>> in lowest terms
Rat(n, d) == <<n \div GCD(n, d), d \div GCD(n, d)>>

RatMul(a, b) == Rat(a[1] * b[1], a[2] * b[2])

LCM(a, b) == (a \div GCD(a, b)) * b

delta_t == 1                         \* Param(initialize=1) [h]
k_loss_S1 == Rat(534, 10000)         \* Param(initialize=0.0534)
k_loss_S2 == Rat(534, 10000)         \* Param(initialize=0.0534)
init_capacity_S1 == 30               \* Param(initialize=30) [MWh]
init_capacity_S2 == 20               \* Param(initialize=20) [MWh]
max_heat_flow == 20                  \* Param(initialize=20) [MW]
water_density == 1000                \* Param(initialize=1000) [kg/m3]
spec_heat_capacity == Rat(41868, 10000000)   \* 4.1868/1000 [MJ/(kg K)]
delta_T_S1 == 40                     \* Param(initialize=40) [K]
delta_T_S2 == 25                     \* Param(initialize=25) [K]
max_total_volume == 2000             \* Param(initialize=2000) [m3]

\* water_density * spec_heat_capacity * delta_T / 3600 [MWh/m3]
energy_density_S1 ==
    RatMul(RatMul(RatMul(<<water_density, 1>>, spec_heat_capacity),
                  <<delta_T_S1, 1>>), <<1, 3600>>)

energy_density_S2 ==
    RatMul(RatMul(RatMul(<<water_density, 1>>, spec_heat_capacity),
                  <<delta_T_S2, 1>>), <<1, 3600>>)

\* content units per MWh
Unit == LCM(k_loss_S1[2], k_loss_S2[2])

\* keyword options a StratifiedHeatStorage object may be constructed with
StratifiedKwargs ==
    { <<>>, [seasonal_discharge_restriction |-> TRUE] }

\* StratifiedHeatStorage.__init__(self, name, filepath, index_col=0) takes
\* no keyword options: a call with one raises TypeError.
StratifiedHeatStorage_init ==
    /\ pc = "new"
    /\ cfg.asset = "stratified_storage"
    /\ pc' = IF DOMAIN cfg.kwargs # {} THEN "TypeError" ELSE "constructed"
    /\ UNCHANGED <<cfg, block, sol>>

StratifiedHeatStorage_max_fw_discharge_rule(_block, i) ==
    _block[i].Q_dot_S1_FW + _block[i].Q_dot_S1_NW <= max_heat_flow * Unit

StratifiedHeatStorage_max_nw_discharge_rule(_block, i) ==
    _block[i].Q_dot_S2_NW <= max_heat_flow * Unit

\* (1 - k_loss) * U for a content U that is a multiple of k_loss's
\* denominator; on other contents the product is off the grid
Retained(k_loss, U) == (k_loss[2] - k_loss[1]) * (U \div k_loss[2])

StratifiedHeatStorage_S1_storage_balance_rule(_block, i) ==
    IF i = 1
    THEN _block[i].U_S1 = init_capacity_S1 * Unit
    ELSE /\ _block[i - 1].U_S1 % k_loss_S1[2] = 0
         /\ _block[i].U_S1
                = Retained(k_loss_S1, _block[i - 1].U_S1)
                    + (_block[i].Q_dot_ST - _block[i].Q_dot_S1_FW
                         - _block[i].Q_dot_S1_NW) * delta_t

StratifiedHeatStorage_S2_storage_balance_rule(_block, i) ==
    IF i = 1
    THEN _block[i].U_S2 = init_capacity_S2 * Unit
    ELSE /\ _block[i - 1].U_S2 % k_loss_S2[2] = 0
         /\ _block[i].U_S2
                = Retained(k_loss_S2, _block[i - 1].U_S2)
                    + (_block[i].Q_dot_WP - _block[i].Q_dot_S2_NW) * delta_t

StratifiedHeatStorage_min_S1_capacity_rule(_block, i) == _block[i].U_S1 >= 0

StratifiedHeatStorage_min_S2_capacity_rule(_block, i) == _block[i].U_S2 >= 0

\* m3 per content unit: 1 / (energy_density * Unit)
volume_per_unit_S1 == Rat(energy_density_S1[2], energy_density_S1[1] * Unit)

volume_per_unit_S2 == Rat(energy_density_S2[2], energy_density_S2[1] * Unit)

\* the volume bound on the first store alone
StratifiedHeatStorage_physical_volume_constraint_rule_S1_only(_block, i) ==
    _block[i].U_S1 * volume_per_unit_S1[1]
        <= max_total_volume * volume_per_unit_S1[2]

\* volume_S1 + volume_S2 <= max_total_volume, multiplied by the common
\* denominator of the two volumes
StratifiedHeatStorage_physical_volume_constraint_rule(_block, i) ==
    LET L == LCM(volume_per_unit_S1[2], volume_per_unit_S2[2])
    IN  _block[i].U_S1 * volume_per_unit_S1[1] * (L \div volume_per_unit_S1[2])
          + _block[i].U_S2 * volume_per_unit_S2[1]
              * (L \div volume_per_unit_S2[2])
        <= max_total_volume * L
\* The block that double_storage_block_rule leaves behind.
StratifiedHeatStorage_block ==
    [vars |-> {"Q_dot_ST", "Q_dot_WP", "Q_dot_S1_FW", "Q_dot_S1_NW",
               "Q_dot_S2_NW", "U_S1", "U_S2", "bin_S1_charge",
               "bin_S1_discharge", "bin_S2_charge", "bin_S2_discharge"},
     ports |-> { <<"st_heat_in", "st_heat", "Q_dot_ST">>,
                 <<"wp_heat_in", "wp_heat", "Q_dot_WP">>,
                 <<"S1_FW_heat_out", "nw_excess_heat", "Q_dot_S1_FW">>,
                 <<"S1_NW_heat_out", "local_heat", "Q_dot_S1_NW">>,
                 <<"S2_NW_heat_out", "local_heat", "Q_dot_S2_NW">> },
     constraints |-> { "max_fw_discharge", "max_nw_discharge",
                       "fw_storage_balance", "nw_storage_balance",
                       "min_fw_capacity", "min_nw_capacity",
                       "physical_volume_constraint" }]

StratifiedHeatStorage_add_to_model ==
    /\ pc = "constructed"
    /\ cfg.asset = "stratified_storage"
    /\ pc' = "built"
    /\ block' = StratifiedHeatStorage_block
    /\ UNCHANGED <<cfg, sol>>

\* the inflow that brings (1 - k_loss) * U up to a multiple of k_loss's
\* denominator
OnGridInflow(k_loss, U) ==
    (k_loss[2] - (Retained(k_loss, U) % k_loss[2])) % k_loss[2]

\* the largest content of the first store that fits the vessel beside U_S2
FillContent_S1(U_S2) ==
    LET L == LCM(volume_per_unit_S1[2], volume_per_unit_S2[2])
    IN  (max_total_volume * L
           - U_S2 * volume_per_unit_S2[1] * (L \div volume_per_unit_S2[2]))
        \div (volume_per_unit_S1[1] * (L \div volume_per_unit_S1[2]))

\* candidate values of a discharge: none, the cap and one unit more
DischargeValues == {0, max_heat_flow * Unit, max_heat_flow * Unit + 1}

\* candidate values of the heat-pump inflow in hour i
InflowValues_WP(i) ==
    {0, Unit} \cup
    (IF i = 1 THEN {}
     ELSE { OnGridInflow(k_loss_S2, sol[i - 1].U_S2),
            OnGridInflow(k_loss_S2, sol[i - 1].U_S2) + Unit })

\* candidate values of the solar inflow in hour i: none, 1 MW, the inflow
\* that keeps U_S1 on the grid of the next hour, the inflow that fills the
\* vessel beside U_S2, and one unit more
InflowValues_ST(i, U_S2, out) ==
    {0, Unit} \cup
    (IF i = 1 THEN {}
     ELSE LET kept == Retained(k_loss_S1, sol[i - 1].U_S1) - out
              fill == FillContent_S1(U_S2) - kept
          IN  { OnGridInflow(k_loss_S1, sol[i - 1].U_S1) }
              \cup ({fill, fill + 1} \cap Nat))

\* candidate values of a content: the initial capacity and the values around x
ContentValues(init_capacity, x) ==
    {init_capacity * Unit} \cup ({x - 1, x, x + 1} \cap Nat)

\* The solver extends the assignment by one hour i.  The four binaries
\* bin_S1_charge, bin_S1_discharge, bin_S2_charge and bin_S2_discharge are
\* declared and enter no constraint; the assignment leaves them out.
StratifiedHeatStorage_solve ==
    /\ pc = "built"
    /\ cfg.asset = "stratified_storage"
    /\ Len(sol) < NHours
    /\ LET i == Len(sol) + 1 IN
       \E Q_dot_WP \in InflowValues_WP(i), Q_dot_S2_NW \in DischargeValues,
          Q_dot_S1_FW \in DischargeValues, Q_dot_S1_NW \in DischargeValues :
         LET b1 == Append(sol, [Q_dot_S1_FW |-> Q_dot_S1_FW,
                                Q_dot_S1_NW |-> Q_dot_S1_NW,
                                Q_dot_S2_NW |-> Q_dot_S2_NW])
             x2 == IF i = 1 THEN init_capacity_S2 * Unit
                   ELSE Retained(k_loss_S2, sol[i - 1].U_S2)
                          + Q_dot_WP - Q_dot_S2_NW
         IN
         /\ Con("max_fw_discharge")
              => StratifiedHeatStorage_max_fw_discharge_rule(b1, i)
         /\ Con("max_nw_discharge")
              => StratifiedHeatStorage_max_nw_discharge_rule(b1, i)
         /\ \E U_S2 \in ContentValues(init_capacity_S2, x2) :
            \E Q_dot_ST \in
                   InflowValues_ST(i, U_S2, Q_dot_S1_FW + Q_dot_S1_NW) :
              LET x1 == IF i = 1 THEN init_capacity_S1 * Unit
                        ELSE Retained(k_loss_S1, sol[i - 1].U_S1)
                               + Q_dot_ST - Q_dot_S1_FW - Q_dot_S1_NW
              IN
              \E U_S1 \in ContentValues(init_capacity_S1, x1) :
                LET b2 == Append(sol, [Q_dot_ST |-> Q_dot_ST,
                                       Q_dot_WP |-> Q_dot_WP,
                                       Q_dot_S1_FW |-> Q_dot_S1_FW,
                                       Q_dot_S1_NW |-> Q_dot_S1_NW,
                                       Q_dot_S2_NW |-> Q_dot_S2_NW,
                                       U_S1 |-> U_S1,
                                       U_S2 |-> U_S2])
                IN
                /\ Con("fw_storage_balance")
                     => StratifiedHeatStorage_S1_storage_balance_rule(b2, i)
                /\ Con("nw_storage_balance")
                     => StratifiedHeatStorage_S2_storage_balance_rule(b2, i)
                /\ Con("min_fw_capacity")
                     => StratifiedHeatStorage_min_S1_capacity_rule(b2, i)
                /\ Con("min_nw_capacity")
                     => StratifiedHeatStorage_min_S2_capacity_rule(b2, i)
                /\ Con("physical_volume_constraint")
                     => StratifiedHeatStorage_physical_volume_constraint_rule(
                            b2, i)
                /\ sol' = b2
    /\ UNCHANGED <<pc, cfg, block>>

InitStratified ==
    /\ pc = "new"
    /\ cfg \in [asset : {"stratified_storage"}, kwargs : StratifiedKwargs]
    /\ block = EmptyBlock
    /\ sol = <<>>

NextStratified ==
    \/ StratifiedHeatStorage_init
    \/ StratifiedHeatStorage_add_to_model
    \/ StratifiedHeatStorage_solve

SpecStratified == InitStratified /\ [][NextStratified]_vars
(***************************************************************************)
(* Properties of the stratified heat store                                 *)
(***************************************************************************)

StratifiedBuilt == pc = "built" /\ cfg.asset = "stratified_storage"

\* C14: stratified volume coupling.  For every hour, the first included,
\* U_S1/e_S1 + U_S2/e_S2 <= 2000 m3 with e = 1000 * (4.1868/1000) * dT / 3600.
\* Multiplied by 36 * Unit * 4.1868 * dT_S1 * dT_S2 / 3600 the inequality is
\* 36 * (U_S1*dT_S2 + U_S2*dT_S1) <= 41868 * (V_max*Unit/10^6) * dT_S1 * dT_S2.
C14_StratifiedVolumeCoupling ==
    StratifiedBuilt =>
        \A i \in 1..Len(sol) :
            36 * (sol[i].U_S1 * delta_T_S2 + sol[i].U_S2 * delta_T_S1)
                <= 41868 * ((max_total_volume * Unit) \div 1000000)
                     * delta_T_S1 * delta_T_S2

\* C14 witness: after the first hour the vessel is exactly full with heat in
\* both stores, the first one charged in that hour.
C14_Witness ==
    /\ StratifiedBuilt
    /\ \E i \in 2..Len(sol) :
           /\ sol[i].Q_dot_ST > 0
           /\ sol[i].U_S1 > sol[i - 1].U_S1
           /\ sol[i].U_S2 > 0
           /\ 36 * (sol[i].U_S1 * delta_T_S2 + sol[i].U_S2 * delta_T_S1)
                  = 41868 * ((max_total_volume * Unit) \div 1000000)
                      * delta_T_S1 * delta_T_S2

\* C15: stratified store balance at the first hour.  At t = 1 the balance is
\* the recurrence with the previous content replaced by the initial
\* capacity: U_S1(1) = (1-k)*init_S1 + (Q_ST(1) - Q_S1_FW(1) - Q_S1_NW(1))*dt
\* and U_S2(1) = (1-k)*init_S2 + (Q_WP(1) - Q_S2_NW(1))*dt.
C15_FirstHourBalance ==
    (StratifiedBuilt /\ Len(sol) >= 1) =>
        /\ sol[1].U_S1
               = Retained(k_loss_S1, init_capacity_S1 * Unit)
                   + (sol[1].Q_dot_ST - sol[1].Q_dot_S1_FW
                        - sol[1].Q_dot_S1_NW) * delta_t
        /\ sol[1].U_S2
               = Retained(k_loss_S2, init_capacity_S2 * Unit)
                   + (sol[1].Q_dot_WP - sol[1].Q_dot_S2_NW) * delta_t

\* C16: stratified discharge caps.  For every hour the discharge of the
\* first store to district heat is <= the cap on its own, and the combined
\* discharge of both stores to local heat is <= the cap.
C16_DischargeCaps ==
    StratifiedBuilt =>
        \A i \in 1..Len(sol) :
            /\ sol[i].Q_dot_S1_FW <= max_heat_flow * Unit
            /\ sol[i].Q_dot_S1_NW + sol[i].Q_dot_S2_NW <= max_heat_flow * Unit

\* the hours of the claim's winter set for a horizon of N hours
InWinterSet(i, N) ==
    \/ N = 8760 /\ (i \in 1..2878 \/ i \in 7295..N)
    \/ N = 8784 /\ (i \in 1..2902 \/ i \in 7319..N)
    \/ N \notin {8760, 8784} /\ i \in 1..13

\* C17: seasonal discharge restriction.  When the store is constructed with
\* the seasonal discharge restriction enabled, as the model assembler does,
\* the build succeeds and Q_dot_S1_FW(t) = 0 for every hour of the winter
\* set.
C17_SeasonalRestriction ==
    ( /\ cfg.asset = "stratified_storage"
      /\ "seasonal_discharge_restriction" \in DOMAIN cfg.kwargs ) =>
        /\ pc # "TypeError"
        /\ \A i \in 1..Len(sol) :
               InWinterSet(i, NHours) => sol[i].Q_dot_S1_FW = 0

(***************************************************************************)
(* The heat pump, src/burn4h2/blocks/heatpump.py                           *)
(*                                                                         *)
(* Both stages are modelled.  Every variable of an hour holds an exact     *)
(* non-negative rational <<numerator, denominator>> in lowest terms, in    *)
(* the variable's own unit (MW, kg/s, m3/s, m3).                           *)
(***************************************************************************)

RatAdd(a, b) ==
    LET L == LCM(a[2], b[2])
    IN  Rat(a[1] * (L \div a[2]) + b[1] * (L \div b[2]), L)

RatDiv(a, b) == Rat(a[1] * b[2], a[2] * b[1])

RatLeq(a, b) == a[1] * b[2] <= b[1] * a[2]

Zero == Rat(0, 1)

\* the Params of heatpump_block_rule that enter a constraint
HeatpumpStageOne_params ==
    [R |-> Rat(488, 1), T1 |-> Rat(28115, 100), p1 |-> Rat(550000, 1),
     h1 |-> Rat(1480, 1), h2 |-> Rat(1625, 1), h4 |-> Rat(395, 1),
     electrical_efficiency_compressor |-> Rat(9, 10),
     n |-> Rat(1500, 60), z |-> Rat(6, 1)]

HeatpumpStageTwo_params ==
    [R |-> Rat(488, 1), T1 |-> Rat(29815, 100), p1 |-> Rat(1000000, 1),
     h1 |-> Rat(1490, 1), h2 |-> Rat(1710, 1), h4 |-> Rat(650, 1),
     electrical_efficiency_compressor |-> Rat(9, 10),
     n |-> Rat(1500, 60), z |-> Rat(6, 1)]

HeatpumpAssets == {"heatpump_s1", "heatpump_s2"}

\* the Params of the stage under construction
Hp == IF cfg.asset = "heatpump_s2" THEN HeatpumpStageTwo_params
      ELSE HeatpumpStageOne_params

\* h2 - h1 and h1 - h4; the enthalpies are whole kJ/kg
Hp_h2_minus_h1 == Rat(Hp.h2[1] - Hp.h1[1], 1)

Hp_h1_minus_h4 == Rat(Hp.h1[1] - Hp.h4[1], 1)

\* __init__(name, filepath, index_col) of either stage reads the data file
Heatpump_init ==
    /\ pc = "new"
    /\ cfg.asset \in HeatpumpAssets
    /\ pc' = "constructed"
    /\ UNCHANGED <<cfg, block, sol>>

Heatpump_heat_pump_operation_rule(_block, i) ==
    _block[i].heat
        = RatAdd(_block[i].capacity_compressor, _block[i].heat_input)

Heatpump_capacity_compressor_rule(_block, i) ==
    _block[i].capacity_compressor
        = RatDiv(RatMul(_block[i].massflow_refigerant, Hp_h2_minus_h1),
                 Rat(1000, 1))

Heatpump_massflow_depends_on_heat_input_rule(_block, i) ==
    _block[i].massflow_refigerant
        = RatDiv(RatMul(_block[i].heat_input, Rat(1000, 1)), Hp_h1_minus_h4)

Heatpump_volume_flow_rule(_block, i) ==
    _block[i].volume_flow
        = RatDiv(RatMul(_block[i].massflow_refigerant, RatMul(Hp.R, Hp.T1)),
                 Hp.p1)

Heatpump_swept_volume_rule(_block, i) ==
    _block[i].swept_volume
        = RatMul(RatDiv(_block[i].volume_flow, Hp.n), Hp.z)

Heatpump_power_rule(_block, i) ==
    _block[i].power
        = RatDiv(_block[i].capacity_compressor,
                 Hp.electrical_efficiency_compressor)

max_heat_input == Rat(205, 100)      \* heat_input[i] <= 2.05  [MW]

HeatpumpStageTwo_max_heat_input_rule_relaxed(_block, i) ==
    RatLeq(_block[i].heat_input, RatAdd(max_heat_input, Rat(1, 20)))

HeatpumpStageTwo_max_heat_input_rule(_block, i) ==
    RatLeq(_block[i].heat_input, max_heat_input)

\* The block that heatpump_block_rule of stage one leaves behind.
HeatpumpStageOne_block ==
    [vars |-> {"bin", "power", "heat_input", "heat", "capacity_compressor",
               "volume_flow", "massflow_refigerant", "swept_volume"},
     ports |-> { <<"power_in", "power", "power">>,
                 <<"heat_in", "waste_heat", "heat_input">>,
                 <<"heat_out", "waste_heat", "heat">> },
     constraints |-> { "heat_pump_operation_constraint",
                       "capacity_compressor_constraint",
                       "massflow_depends_on_heat_input_constraint",
                       "power_constraint", "volume_flow_constraint",
                       "swept_volume_constraint" }]

\* The block that heatpump_block_rule of stage two leaves behind.
HeatpumpStageTwo_block ==
    [vars |-> {"bin", "power", "heat_input", "heat", "capacity_compressor",
               "volume_flow", "massflow_refigerant", "swept_volume"},
     ports |-> { <<"power_in", "power", "power">>,
                 <<"waste_heat_in", "waste_heat", "heat_input">>,
                 <<"heat_out", "wp_heat", "heat">> },
     constraints |-> { "heat_pump_operation_constraint",
                       "capacity_compressor_constraint",
                       "massflow_depends_on_heat_input_constraint",
                       "power_constraint", "volume_flow_constraint",
                       "swept_volume_constraint",
                       "max_heat_input_constraint" }]

HeatpumpStageOne_add_to_model ==
    /\ pc = "constructed"
    /\ cfg.asset = "heatpump_s1"
    /\ pc' = "built"
    /\ block' = HeatpumpStageOne_block
    /\ UNCHANGED <<cfg, sol>>

HeatpumpStageTwo_add_to_model ==
    /\ pc = "constructed"
    /\ cfg.asset = "heatpump_s2"
    /\ pc' = "built"
    /\ block' = HeatpumpStageTwo_block
    /\ UNCHANGED <<cfg, sol>>

\* candidate heat inputs [MW]: none, a twentieth, one, and the twentieths
\* around the cap of stage two
HeatInputValues ==
    {Zero, Rat(1, 20), Rat(1, 1)}
        \cup { RatAdd(max_heat_input, Rat(k, 20)) : k \in 0..1 }
        \cup { Rat(max_heat_input[1] * 20 - max_heat_input[2],
                   max_heat_input[2] * 20) }

\* candidate values of a variable that a constraint ties to the heat input:
\* each heat input scaled by each of the ratios the constraints can form
\* from the enthalpies and the efficiency
EnthalpyRatios ==
    LET r == RatDiv(Hp_h2_minus_h1, Hp_h1_minus_h4)
        e == Hp.electrical_efficiency_compressor
    IN  {Zero, Rat(1, 1), r, RatAdd(Rat(1, 1), r), RatDiv(r, e),
         RatMul(r, e), RatDiv(Rat(1000, 1), Hp_h1_minus_h4)}

ThermalValues == { RatMul(x, c) : x \in HeatInputValues, c \in EnthalpyRatios }

\* candidate volume flows and swept volumes
VolumeValues ==
    LET v == RatDiv(RatMul(RatDiv(Rat(1000, 1), Hp_h1_minus_h4),
                           RatMul(Hp.R, Hp.T1)), Hp.p1)
    IN  { RatMul(x, c) : x \in HeatInputValues,
                         c \in {v, RatMul(RatDiv(v, Hp.n), Hp.z)} }

\* The solver extends the assignment by one hour i.  bin is a Binary
\* variable that enters no constraint; every value of it is feasible.
Heatpump_solve ==
    /\ pc = "built"
    /\ cfg.asset \in HeatpumpAssets
    /\ Len(sol) < NHours
    /\ LET i == Len(sol) + 1
           thermal == ThermalValues
           volume == VolumeValues
       IN
       \E bin \in Binary, heat_input \in HeatInputValues :
         /\ Con("max_heat_input_constraint")
              => HeatpumpStageTwo_max_heat_input_rule(
                     Append(sol, [heat_input |-> heat_input]), i)
         /\ \E massflow_refigerant \in thermal :
           /\ Con("massflow_depends_on_heat_input_constraint")
                => Heatpump_massflow_depends_on_heat_input_rule(
                       Append(sol,
                           [heat_input |-> heat_input,
                            massflow_refigerant |-> massflow_refigerant]), i)
           /\ \E capacity_compressor \in thermal :
             /\ Con("capacity_compressor_constraint")
                  => Heatpump_capacity_compressor_rule(
                         Append(sol,
                             [massflow_refigerant |-> massflow_refigerant,
                              capacity_compressor |-> capacity_compressor]),
                         i)
             /\ \E heat \in thermal :
               /\ Con("heat_pump_operation_constraint")
                    => Heatpump_heat_pump_operation_rule(
                           Append(sol,
                               [heat |-> heat,
                                heat_input |-> heat_input,
                                capacity_compressor |-> capacity_compressor]),
                           i)
               /\ \E power \in thermal :
                 /\ Con("power_constraint")
                      => Heatpump_power_rule(
                             Append(sol,
                                 [power |-> power,
                                  capacity_compressor
                                      |-> capacity_compressor]), i)
                 /\ \E volume_flow \in volume :
                   /\ Con("volume_flow_constraint")
                        => Heatpump_volume_flow_rule(
                               Append(sol,
                                   [massflow_refigerant
                                        |-> massflow_refigerant,
                                    volume_flow |-> volume_flow]), i)
                   /\ \E swept_volume \in volume :
                     /\ Con("swept_volume_constraint")
                          => Heatpump_swept_volume_rule(
                                 Append(sol,
                                     [volume_flow |-> volume_flow,
                                      swept_volume |-> swept_volume]), i)
                     /\ sol' = Append(sol,
                                  [bin |-> bin,
                                   power |-> power,
                                   heat_input |-> heat_input,
                                   heat |-> heat,
                                   capacity_compressor |-> capacity_compressor,
                                   volume_flow |-> volume_flow,
                                   massflow_refigerant |-> massflow_refigerant,
                                   swept_volume |-> swept_volume])
    /\ UNCHANGED <<pc, cfg, block>>

InitHeatpump ==
    /\ pc = "new"
    /\ cfg \in [asset : HeatpumpAssets]
    /\ block = EmptyBlock
    /\ sol = <<>>

NextHeatpump ==
    \/ Heatpump_init
    \/ HeatpumpStageOne_add_to_model
    \/ HeatpumpStageTwo_add_to_model
    \/ Heatpump_solve

SpecHeatpump == InitHeatpump /\ [][NextHeatpump]_vars

(***************************************************************************)
(* Properties of the heat pump                                             *)
(***************************************************************************)

HeatpumpBuilt == pc = "built" /\ cfg.asset \in HeatpumpAssets

\* C18: commitment gating of the heat pump.  For both stages, in every
\* assignment that satisfies the block's constraints, bin(t) = 0 implies
\* power(t) = 0 and heat(t) = 0.
C18_HeatpumpCommitmentGating ==
    HeatpumpBuilt =>
        \A i \in 1..Len(sol) :
            sol[i].bin = 0 => (sol[i].power = Zero /\ sol[i].heat = Zero)

\* (h2 - h1) / (h1 - h4) of the stage
EnthalpyRatio == RatDiv(Hp_h2_minus_h1, Hp_h1_minus_h4)

\* C19: heat-pump coupling.  For each stage and every hour t,
\* heat(t) = capacity_compressor(t) + heat_input(t),
\* capacity_compressor(t) = heat_input(t) * (h2-h1)/(h1-h4) and
\* power(t) = capacity_compressor(t) / eta_el; so heat_input(t) = 0 forces
\* heat(t) = 0 and power(t) = 0, and heat(t) >= heat_input(t).  For stage
\* two, in addition, heat_input(t) <= 2.05 MW and
\* heat(t) <= 2.05 * (1 + (h2-h1)/(h1-h4)).
C19_HeatpumpCoupling ==
    HeatpumpBuilt =>
        \A i \in 1..Len(sol) :
            /\ sol[i].heat
                   = RatAdd(sol[i].capacity_compressor, sol[i].heat_input)
            /\ sol[i].capacity_compressor
                   = RatMul(sol[i].heat_input, EnthalpyRatio)
            /\ sol[i].power
                   = RatDiv(sol[i].capacity_compressor,
                            Hp.electrical_efficiency_compressor)
            /\ sol[i].heat_input = Zero
                   => (sol[i].heat = Zero /\ sol[i].power = Zero)
            /\ RatLeq(sol[i].heat_input, sol[i].heat)
            /\ cfg.asset = "heatpump_s2"
                   => /\ RatLeq(sol[i].heat_input, Rat(205, 100))
                      /\ RatLeq(sol[i].heat,
                                RatMul(Rat(205, 100),
                                       RatAdd(Rat(1, 1), EnthalpyRatio)))

\* C19 witness: stage two runs one hour at the cap of its heat input, with
\* its heat output at the bound and power drawn, and another hour with no
\* heat input.
C19_Witness ==
    /\ HeatpumpBuilt
    /\ cfg.asset = "heatpump_s2"
    /\ \E i, j \in 1..Len(sol) :
           /\ sol[i].heat_input = Rat(205, 100)
           /\ sol[i].heat
                  = RatMul(Rat(205, 100), RatAdd(Rat(1, 1), EnthalpyRatio))
           /\ RatLeq(Rat(1, 2), sol[i].power)
           /\ sol[j].heat_input = Zero
           /\ sol[j].heat = Zero
           /\ sol[j].power = Zero

\* C21: option whitelist.  Every asset constructor rejects an option key
\* outside its whitelist at construction, and every option key that the model
\* assembler itself passes is accepted: constructing the stratified store
\* with no other key than seasonal_discharge_restriction raises no error.
C21_OptionWhitelist ==
    ( /\ cfg.asset = "stratified_storage"
      /\ DOMAIN cfg.kwargs \subseteq {"seasonal_discharge_restriction"} ) =>
        pc \notin {"KeyError", "TypeError"}

(***************************************************************************)
(* Cost decomposition, Model.save_costs of burn4h2/main.py.  Flows are in  *)
(* whole MWh, prices and money in thousandths of a euro; a value rounded   *)
(* to two decimals is in hundredths.                                       *)
(***************************************************************************)

FlowValues == {0, 1}

\* the series that enter the objective, one hour of a solved instance; no
\* more than two of them are non-zero in one hour
SolvedHours ==
    { h \in [ngas_supply : FlowValues, co2_chp_1 : FlowValues,
             co2_chp_2 : FlowValues, power_balance : {0 - 1, 0, 1},
             hydrogen_supply : FlowValues, heat_feedin : FlowValues] :
        h.ngas_supply + h.co2_chp_1 + h.co2_chp_2
          + (IF h.power_balance = 0 THEN 0 ELSE 1)
          + h.hydrogen_supply + h.heat_feedin <= 2 }

\* the prices of a scenario: the time series are constant over the hours
ScenarioPrices ==
    [asset : {"costs"}, USE_CONST_H2_PRICE : BOOLEAN,
     gas_price : {30000, 30004}, power_price : {50000},
     hydrogen_price : {90000}, H2_PRICE : {80000},
     CO2_PRICE : {100000}, HEAT_PRICE : {30000}]

\* Model.solve leaves the primal values of one more hour
Model_solve_hour ==
    /\ pc = "instance"
    /\ cfg.asset = "costs"
    /\ Len(sol) < NHours
    /\ \E h \in SolvedHours : sol' = Append(sol, h)
    /\ UNCHANGED <<pc, cfg, block>>

\* quicksum(component[t] * price for t in m.t), in thousandths
quicksum(component, price) ==
    SumSeq([t \in 1..Len(sol) |-> sol[t][component] * price], Len(sol))

\* the hydrogen price that the objective uses
obj_hydrogen_price ==
    IF cfg.USE_CONST_H2_PRICE THEN cfg.H2_PRICE ELSE cfg.hydrogen_price

Model_obj_expression ==
    quicksum("ngas_supply", cfg.gas_price)
      + quicksum("co2_chp_1", cfg.CO2_PRICE)
      + quicksum("co2_chp_2", cfg.CO2_PRICE)
      + quicksum("power_balance", cfg.power_price)
      + quicksum("hydrogen_supply", obj_hydrogen_price)
      - quicksum("heat_feedin", cfg.HEAT_PRICE)

\* round(x, 2): the nearest hundredths of a value in thousandths; on a tie
\* the binary representation of the float decides, either neighbour
round2(x) ==
    LET near == {x \div 10, (x \div 10) + 1}
        dist(q) == IF 10 * q >= x THEN 10 * q - x ELSE x - 10 * q
    IN  { q \in near : \A r \in near : dist(q) <= dist(r) }

\* Model.calculate_costs: the rounded dot product of a series and a price
Model_calculate_costs(component, price) == round2(quicksum(component, price))

\* the hydrogen price that save_costs uses
h2_price_param ==
    IF cfg.USE_CONST_H2_PRICE THEN cfg.H2_PRICE ELSE cfg.hydrogen_price

\* Model.save_costs: the cost dict, net_total in hundredths
Model_save_costs ==
    /\ pc = "instance"
    /\ cfg.asset = "costs"
    /\ Len(sol) = NHours
    /\ \E CO2_costs_chp_1 \in Model_calculate_costs("co2_chp_1", cfg.CO2_PRICE),
          CO2_costs_chp_2 \in Model_calculate_costs("co2_chp_2", cfg.CO2_PRICE),
          gas_costs \in Model_calculate_costs("ngas_supply", cfg.gas_price),
          power_costs \in Model_calculate_costs("power_balance",
                                                cfg.power_price),
          hydrogen_costs \in Model_calculate_costs("hydrogen_supply",
                                                   h2_price_param),
          heat_revenue \in Model_calculate_costs("heat_feedin",
                                                 cfg.HEAT_PRICE),
          solver_objective \in round2(Model_obj_expression) :
         LET total_costs == CO2_costs_chp_1 + CO2_costs_chp_2 + gas_costs
                              + power_costs + hydrogen_costs
         IN  block' = [costs |-> [CO2_costs_chp_1 |-> CO2_costs_chp_1,
                                  CO2_costs_chp_2 |-> CO2_costs_chp_2,
                                  gas_costs |-> gas_costs,
                                  power_costs |-> power_costs,
                                  hydrogen_costs |-> hydrogen_costs,
                                  total |-> total_costs],
                       revenue |-> [heat_revenue |-> heat_revenue,
                                    total |-> heat_revenue],
                       solver_objective |-> solver_objective,
                       net_total |-> total_costs - heat_revenue]
    /\ pc' = "costs_saved"
    /\ UNCHANGED <<cfg, sol>>

InitCosts ==
    /\ pc = "instance"
    /\ cfg \in ScenarioPrices
    /\ block = EmptyBlock
    /\ sol = <<>>

NextCosts ==
    \/ Model_solve_hour
    \/ Model_save_costs

SpecCosts == InitCosts /\ [][NextCosts]_vars

\* |a|
Abs(a) == IF a >= 0 THEN a ELSE 0 - a

\* C22: cost reconciliation.  For every solved scenario the net total that
\* save_costs computes from the primal values equals the objective value to
\* within 1e-4 relative: 10^4 * |net_total - objective| <= |objective|.
C22_CostReconciliation ==
    (pc = "costs_saved" /\ cfg.asset = "costs") =>
        10000 * Abs(10 * block.net_total - Model_obj_expression)
            <= Abs(Model_obj_expression)

(***************************************************************************)
(* The driver, __main__ and run_simulation of burn4h2/main.py.             *)
(*                                                                         *)
(* A name is a sequence of tokens, "_" and ".json" among them; a path is a *)
(* sequence of names; a file is a directory and a file name; a timestamp   *)
(* is <<second>> and None is <<>>.  block holds the driver's own state,    *)
(* sol the trace of what it has done: the steps that returned or raised,   *)
(* the results of run_simulation and the files written.                    *)
(***************************************************************************)

ClockBound == 2

PATH_OUT == << <<"data">>, <<"output">> >>

\* glob over config/templates/*.json, basenames
AVAILABLE_CONFIGS ==
    << <<"uc1", "_", "a", ".json">>,
       <<"uc1", "_", "b", "_", "c", ".json">>,
       <<"dummy", ".json">> >>

\* the command lines: --use-case PREFIX or --config FILE
CommandLines ==
    [asset : {"driver"}, use_case : {<<"uc1">>, <<"uc9">>}, config : {<<>>}]
      \cup [asset : {"driver"}, use_case : {<<>>},
            config : {AVAILABLE_CONFIGS[k] : k \in DOMAIN AVAILABLE_CONFIGS}]

\* str.startswith
startswith(s, prefix) ==
    /\ Len(s) >= Len(prefix)
    /\ SubSeq(s, 1, Len(prefix)) = prefix

use_case_configs_all(use_case) == AVAILABLE_CONFIGS

\* [cfg for cfg in AVAILABLE_CONFIGS if cfg.startswith(f"{use_case}_")]
use_case_configs(use_case) ==
    SelectSeq(AVAILABLE_CONFIGS,
              LAMBDA f : startswith(f, use_case \o <<"_">>))

\* os.path.basename(config_file).replace('.json', '')
config_name(config_file) == SelectSeq(config_file, LAMBDA c : c # ".json")

\* config_name.split('_')[0]
split_first(name) ==
    LET first == CHOOSE k \in 1..(Len(name) + 1) :
                     /\ k = Len(name) + 1 \/ name[k] = "_"
                     /\ \A j \in 1..(k - 1) : name[j] # "_"
    IN  SubSeq(name, 1, first - 1)

\* os.path.join of a path and one component; an empty component adds only a
\* separator
path_join(path, component) ==
    IF component = <<>> THEN path ELSE Append(path, component)

get_directory_structure_nested(output_dir, config_file) ==
    LET name == config_name(config_file)
    IN  path_join(path_join(output_dir, split_first(name)), name)

\* Model.get_directory_structure, the run directory
get_directory_structure(output_dir, config_file) ==
    LET name == config_name(config_file)
    IN  IF \E k \in DOMAIN name : name[k] = "_"
        THEN path_join(path_join(output_dir, split_first(name)), name)
        ELSE path_join(output_dir, name)

Steps_save_before_solve ==
    << "Model", "set_solver", "load_timeseries_data", "add_components",
       "add_objective", "instantiate", "add_arcs", "expand_arcs",
       "save_result_data", "solve", "write_results", "save_costs" >>

\* the steps of run_simulation in program order
Steps ==
    << "Model", "set_solver", "load_timeseries_data", "add_components",
       "add_objective", "instantiate", "add_arcs", "expand_arcs", "solve",
       "write_results", "save_result_data", "save_costs" >>

\* the files that a step writes
StepFiles(step) ==
    CASE step = "solve" -> {"solver.log"}
      [] step = "save_result_data" -> {"output.csv", "metadata.json"}
      [] step = "save_costs" -> {"costs.json"}
      [] OTHER -> {}

\* f"{config_name}_{self.timestamp}_{suffix}"
file_name(config_file, timestamp, suffix) ==
    <<config_name(config_file), timestamp, suffix>>

\* the files that a step of a run writes: os.path.join(run_dir, file name)
written_files(config_file, timestamp, step) ==
    { [dir |-> get_directory_structure(PATH_OUT, config_file),
       name |-> file_name(config_file, timestamp, suffix)] :
      suffix \in StepFiles(step) }

\* the scenarios that the command line selects, in the order they run
Driver_queue ==
    IF cfg.use_case # <<>> THEN use_case_configs(cfg.use_case)
    ELSE <<cfg.config>>

\* __main__: the use-case branch exits with 1 when no config matches
Driver_main ==
    /\ pc = "main"
    /\ cfg.asset = "driver"
    /\ IF cfg.use_case # <<>> /\ Driver_queue = <<>>
       THEN /\ pc' = "exit"
            /\ block' = [block EXCEPT !.exit_code = <<1>>]
       ELSE /\ pc' = "run_simulation"
            /\ UNCHANGED block
    /\ UNCHANGED <<cfg, sol>>

\* the next call of run_simulation, or the end of the program
Driver_run_simulation ==
    /\ pc = "run_simulation"
    /\ cfg.asset = "driver"
    /\ IF block.run < Len(Driver_queue)
       THEN /\ pc' = "Model"
            /\ block' = [block EXCEPT !.run = block.run + 1,
                                      !.timestamp = <<>>]
       ELSE /\ pc' = "exit"
            /\ block' = [block EXCEPT !.exit_code = <<0>>]
    /\ UNCHANGED <<cfg, sol>>

\* the position after a step
StepAfter(step) ==
    LET k == CHOOSE j \in DOMAIN Steps : Steps[j] = step
    IN  IF k = Len(Steps) THEN "return" ELSE Steps[k + 1]

\* One step of run_simulation returns.  solve takes the timestamp from the
\* clock before the solver runs and the solver writes its log; the two save
\* steps name their files after self.timestamp.  save_costs catches the
\* IOError of its own write and returns without the file.
Driver_step ==
    /\ cfg.asset = "driver"
    /\ \E k \in DOMAIN Steps : pc = Steps[k]
    /\ LET config_file == Driver_queue[block.run]
           timestamp == IF pc = "solve" THEN <<block.clock>>
                        ELSE block.timestamp
           written == written_files(config_file, timestamp, pc)
       IN
       /\ block' = [block EXCEPT !.timestamp = timestamp]
       /\ \E files \in IF pc = "save_costs" THEN {written, {}}
                       ELSE {written} :
            sol' = Append(sol,
                     [run |-> block.run, config |-> config_file, step |-> pc,
                      outcome |-> "returned", files |-> files])
    /\ pc' = StepAfter(pc)
    /\ UNCHANGED cfg

\* One step of run_simulation raises: "except Exception" prints the error
\* and run_simulation returns False.  A solve that raises has set the
\* timestamp and may have left its log.
Driver_except ==
    /\ cfg.asset = "driver"
    /\ \E k \in DOMAIN Steps : pc = Steps[k]
    /\ LET config_file == Driver_queue[block.run] IN
       \E files \in IF pc = "solve"
                    THEN {{}, written_files(config_file, <<block.clock>>, pc)}
                    ELSE {{}} :
         /\ block' = [block EXCEPT
                        !.timestamp = IF pc = "solve" THEN <<block.clock>>
                                      ELSE @,
                        !.failed = IF cfg.use_case # <<>> THEN @ + 1 ELSE @]
         /\ sol' = sol \o
                     << [run |-> block.run, config |-> config_file,
                         step |-> pc, outcome |-> "raised", files |-> files],
                        [run |-> block.run, config |-> config_file,
                         step |-> "run_simulation", outcome |-> "False",
                         files |-> {}] >>
    /\ pc' = "run_simulation"
    /\ UNCHANGED cfg

\* run_simulation returns True
Driver_return ==
    /\ pc = "return"
    /\ cfg.asset = "driver"
    /\ block' = [block EXCEPT
                   !.successful = IF cfg.use_case # <<>> THEN @ + 1 ELSE @]
    /\ sol' = Append(sol, [run |-> block.run,
                           config |-> Driver_queue[block.run],
                           step |-> "run_simulation", outcome |-> "True",
                           files |-> {}])
    /\ pc' = "run_simulation"
    /\ UNCHANGED cfg

\* datetime.now() moves on by a second
Driver_tick ==
    /\ cfg.asset = "driver"
    /\ pc \in {"solve", "save_result_data", "save_costs"}
    /\ block.clock < ClockBound
    /\ block' = [block EXCEPT !.clock = block.clock + 1]
    /\ UNCHANGED <<pc, cfg, sol>>

InitDriver ==
    /\ pc = "main"
    /\ cfg \in CommandLines
    /\ block = [run |-> 0, successful |-> 0, failed |-> 0,
                timestamp |-> <<>>, clock |-> 0, exit_code |-> <<>>]
    /\ sol = <<>>

NextDriver ==
    \/ Driver_main
    \/ Driver_run_simulation
    \/ Driver_step
    \/ Driver_except
    \/ Driver_return
    \/ Driver_tick

SpecDriver == InitDriver /\ [][NextDriver]_vars

(***************************************************************************)
(* Properties of the driver                                                *)
(***************************************************************************)

DriverExited == cfg.asset = "driver" /\ pc = "exit"

\* the events of the trace with a given step and outcome
Events(step, outcome) ==
    { i \in DOMAIN sol : sol[i].step = step /\ sol[i].outcome = outcome }

\* C23: exit status.  The driver ends with exit code 0 only if every
\* scenario it ran succeeded, and with a non-zero exit code if at least one
\* scenario failed, in --config and in --use-case mode.
C23_ExitStatus ==
    DriverExited =>
        ( Events("run_simulation", "False") # {}
            => block.exit_code # <<0>> )

\* the configs that --use-case PREFIX names: basename starts with PREFIX_
Matching(prefix) ==
    { f \in { AVAILABLE_CONFIGS[k] : k \in DOMAIN AVAILABLE_CONFIGS } :
        /\ Len(f) > Len(prefix)
        /\ \A k \in DOMAIN prefix : f[k] = prefix[k]
        /\ f[Len(prefix) + 1] = "_" }

\* C24: failure isolation without retry.  In --use-case mode the scenarios
\* run in sequence, only matching configs run, each at most once and the
\* solver at most once per scenario; when the driver has ended every
\* matching config has run exactly once, whatever failed before it, and
\* successful + failed is the number of matching configs.
C24_FailureIsolation ==
    (cfg.asset = "driver" /\ cfg.use_case # <<>>) =>
        /\ \A i, j \in DOMAIN sol : i < j => sol[i].run <= sol[j].run
        /\ \A i \in DOMAIN sol : sol[i].config \in Matching(cfg.use_case)
        /\ \A i, j \in DOMAIN sol :
               ( /\ sol[i].config = sol[j].config
                 /\ sol[i].step = sol[j].step
                 /\ sol[i].step \in {"Model", "solve", "run_simulation"} )
                   => i = j
        /\ pc = "exit" =>
               /\ \A f \in Matching(cfg.use_case) :
                      \E i \in DOMAIN sol :
                          sol[i].config = f /\ sol[i].step = "run_simulation"
               /\ block.successful + block.failed
                      = Cardinality(Matching(cfg.use_case))
               /\ block.successful
                      = Cardinality(Events("run_simulation", "True"))
               /\ block.failed
                      = Cardinality(Events("run_simulation", "False"))

\* C24 witness: the first of two matching scenarios failed in the solver,
\* the second one ran to its end, and the driver has ended.
C24_Witness ==
    /\ DriverExited
    /\ cfg.use_case = <<"uc1">>
    /\ \E i, j \in DOMAIN sol :
           /\ i < j
           /\ sol[i].step = "solve" /\ sol[i].outcome = "raised"
           /\ sol[j].step = "run_simulation" /\ sol[j].outcome = "True"
           /\ sol[i].config # sol[j].config
    /\ block.successful = 1
    /\ block.failed = 1

\* the directory of the claim for each config of AVAILABLE_CONFIGS
ExpectedRunDir(config_file) ==
    CASE config_file = <<"uc1", "_", "a", ".json">>
           -> << <<"data">>, <<"output">>, <<"uc1">>, <<"uc1", "_", "a">> >>
      [] config_file = <<"uc1", "_", "b", "_", "c", ".json">>
           -> << <<"data">>, <<"output">>, <<"uc1">>,
                 <<"uc1", "_", "b", "_", "c">> >>
      [] config_file = <<"dummy", ".json">>
           -> << <<"data">>, <<"output">>, <<"dummy">> >>

\* the files that run number r has written
FilesOf(r) == UNION { sol[i].files : i \in { j \in DOMAIN sol : sol[j].run = r } }

\* C25: output layout.  The solver log, output CSV, metadata JSON and cost
\* JSON of one run are all written into <output_root>/<part of S before the
\* first underscore>/<S>/ for a scenario S with an underscore and into
\* <output_root>/<S>/ for one without, under names that start with S and
\* carry the same timestamp, the one generated in solve.
C25_OutputLayout ==
    cfg.asset = "driver" =>
        \A i \in DOMAIN sol :
            \A f \in sol[i].files :
                /\ f.dir = ExpectedRunDir(sol[i].config)
                /\ f.name[1] = f.dir[Len(f.dir)]
                /\ f.name[2] # <<>>
                /\ \A g \in FilesOf(sol[i].run) : g.name[2] = f.name[2]
                /\ sol[i].run = block.run => f.name[2] = block.timestamp

\* C25 witness: one run of a scenario with an underscore and one of a
\* scenario without have each written their four files, the clock having
\* moved on after the timestamp was taken.
C25_Witness ==
    /\ DriverExited
    /\ \E r \in 1..block.run :
           /\ { f.name[3] : f \in FilesOf(r) }
                  = {"solver.log", "output.csv", "metadata.json", "costs.json"}
           /\ \A f \in FilesOf(r) : f.name[2] # <<block.clock>>
           /\ \/ cfg.config = <<"dummy", ".json">>
              \/ /\ cfg.use_case = <<"uc1">>
                 /\ r = 2

\* the steps of the claim in their order
ClaimedOrder ==
    << "set_solver", "load_timeseries_data", "add_components",
       "add_objective", "instantiate", "add_arcs", "expand_arcs", "solve",
       "write_results", "save_result_data", "save_costs" >>

\* the steps of run r that the trace holds, without the constructor and the
\* result of run_simulation
StepsOf(r) ==
    SelectSeq(sol, LAMBDA e : e.run = r
                              /\ e.step \notin {"Model", "run_simulation"})

\* C30: scenario step ordering.  Within one call of run_simulation the steps
\* run in the fixed order; an exception in a step skips every later step and
\* makes run_simulation return False; the output CSV, the metadata JSON and
\* the cost JSON are written only after a solve that returned, and never
\* with an unset timestamp.
C30_StepOrdering ==
    cfg.asset = "driver" =>
        \A r \in 1..block.run :
            LET done == StepsOf(r) IN
            /\ Len(done) <= Len(ClaimedOrder)
            /\ \A k \in DOMAIN done :
                   /\ done[k].step = ClaimedOrder[k]
                   /\ done[k].outcome = "raised" => k = Len(done)
                   /\ \A f \in done[k].files :
                          f.name[3] # "solver.log" =>
                              /\ f.name[2] # <<>>
                              /\ \E j \in 1..(k - 1) :
                                     /\ done[j].step = "solve"
                                     /\ done[j].outcome = "returned"
            /\ \A i \in DOMAIN sol :
                   (sol[i].run = r /\ sol[i].outcome = "raised") =>
                       /\ i < Len(sol)
                       /\ sol[i + 1].run = r
                       /\ sol[i + 1].step = "run_simulation"
                       /\ sol[i + 1].outcome = "False"
                       /\ \A j \in (i + 2)..Len(sol) : sol[j].run # r

\* C30 witness: a scenario has raised in write_results, after its solve
\* returned, and a later one has written its cost file.
C30_Witness ==
    /\ DriverExited
    /\ \E i, j \in DOMAIN sol :
           /\ i < j
           /\ sol[i].step = "write_results" /\ sol[i].outcome = "raised"
           /\ sol[j].step = "save_costs" /\ sol[j].outcome = "returned"
           /\ sol[j].files # {}

(***************************************************************************)
(* The geothermal store, GeoHeatStorage of blocks/storage.py               *)
(***************************************************************************)

\* the rows 'max' and 'min' of the asset's csv: heat [MW], content [MWh]
GeoData ==
    [max_heat : {1, 2}, max_content : {2, ContentBound}, min_content : {0}]

\* GeoHeatStorage.__init__(name, filepath, index_col) reads the data file
GeoHeatStorage_init ==
    /\ pc = "new"
    /\ cfg.asset = "geo_heat_storage"
    /\ pc' = "constructed"
    /\ UNCHANGED <<cfg, block, sol>>

GeoHeatStorage_max_heat_charging_rule(_block, i) ==
    _block[i].heat_charging <= cfg.data.max_heat * _block[i].bin_charge

GeoHeatStorage_max_heat_discharging_rule(_block, i) ==
    _block[i].heat_discharging <= cfg.data.max_heat * _block[i].bin_discharge

GeoHeatStorage_heat_balance_rule(_block, i) ==
    _block[i].heat_balance
        = _block[i].heat_discharging - _block[i].heat_charging

GeoHeatStorage_binary_rule(_block, i) ==
    _block[i].bin_charge + _block[i].bin_discharge = 1

GeoHeatStorage_max_heat_content_rule(_block, i) ==
    _block[i].heat_content <= cfg.data.max_content

GeoHeatStorage_min_heat_content_rule(_block, i) ==
    _block[i].heat_content >= cfg.data.min_content

GeoHeatStorage_actual_heat_content_rule(_block, i) ==
    IF i = 1
    THEN _block[i].heat_content = 0 - _block[i].heat_balance
    ELSE _block[i].heat_content
             = _block[i - 1].heat_content - _block[i].heat_balance

\* The block that geo_heat_storage_block_rule leaves behind: binary_rule is
\* defined and its Constraint is commented out.
GeoHeatStorage_block ==
    [vars |-> {"heat_balance", "heat_charging", "heat_discharging",
               "heat_content", "bin_charge", "bin_discharge"},
     ports |-> { <<"heat_in", "waste_heat", "heat_charging">>,
                 <<"heat_out", "waste_heat", "heat_discharging">> },
     constraints |-> { "max_heat_charging_constraint",
                       "max_heat_discharging_constraint",
                       "heat_balance_constraint",
                       "max_heat_content_constraint",
                       "min_heat_content_rule",
                       "actual_heat_content_constraint" }]

GeoHeatStorage_add_to_model ==
    /\ pc = "constructed"
    /\ cfg.asset = "geo_heat_storage"
    /\ pc' = "built"
    /\ block' = GeoHeatStorage_block
    /\ UNCHANGED <<cfg, sol>>

\* The solver extends the assignment by one hour i.
GeoHeatStorage_solve ==
    /\ pc = "built"
    /\ cfg.asset = "geo_heat_storage"
    /\ Len(sol) < NHours
    /\ LET i == Len(sol) + 1 IN
       \E bin_charge \in Binary, bin_discharge \in Binary,
          heat_charging \in 0..HeatBound, heat_discharging \in 0..HeatBound,
          heat_content \in 0..(ContentBound + 1) :
         LET b == Append(sol,
                    [heat_balance |-> heat_discharging - heat_charging,
                     heat_charging |-> heat_charging,
                     heat_discharging |-> heat_discharging,
                     heat_content |-> heat_content,
                     bin_charge |-> bin_charge,
                     bin_discharge |-> bin_discharge])
         IN
         /\ Con("max_heat_charging_constraint")
              => GeoHeatStorage_max_heat_charging_rule(b, i)
         /\ Con("max_heat_discharging_constraint")
              => GeoHeatStorage_max_heat_discharging_rule(b, i)
         /\ Con("heat_balance_constraint")
              => GeoHeatStorage_heat_balance_rule(b, i)
         /\ Con("binary_constraint")
              => GeoHeatStorage_binary_rule(b, i)
         /\ Con("max_heat_content_constraint")
              => GeoHeatStorage_max_heat_content_rule(b, i)
         /\ Con("min_heat_content_rule")
              => GeoHeatStorage_min_heat_content_rule(b, i)
         /\ Con("actual_heat_content_constraint")
              => GeoHeatStorage_actual_heat_content_rule(b, i)
         /\ sol' = b
    /\ UNCHANGED <<pc, cfg, block>>

InitGeo ==
    /\ pc = "new"
    /\ cfg \in [asset : {"geo_heat_storage"}, data : GeoData]
    /\ block = EmptyBlock
    /\ sol = <<>>

NextGeo ==
    \/ GeoHeatStorage_init
    \/ GeoHeatStorage_add_to_model
    \/ GeoHeatStorage_solve

SpecGeo == InitGeo /\ [][NextGeo]_vars

\* C28: geothermal store exclusivity.  The geothermal store enforces
\* bin_charge(t) + bin_discharge(t) = 1, so heat_charging(t) and
\* heat_discharging(t) are never both positive in one hour; the store has
\* no option that relaxes the exclusivity, so none is configured.
C28_GeoExclusivity ==
    (pc = "built" /\ cfg.asset = "geo_heat_storage") =>
        \A i \in 1..Len(sol) :
            /\ sol[i].bin_charge + sol[i].bin_discharge = 1
            /\ ~(sol[i].heat_charging > 0 /\ sol[i].heat_discharging > 0)

(***************************************************************************)
(* Two runs of run_simulation as independent processes that share the      *)
(* file system and the wall clock.  pc is the pair of their positions,     *)
(* block holds the clock and each run's self.timestamp, sol the writes.    *)
(***************************************************************************)

Processes == {1, 2}

\* One process performs its next step from solve on; solve takes the
\* timestamp from the clock.
Concurrent_step(p) ==
    /\ cfg.asset = "processes"
    /\ pc[p] \in {"solve", "write_results", "save_result_data", "save_costs"}
    /\ LET timestamp == IF pc[p] = "solve" THEN <<block.clock>>
                        ELSE block.timestamp[p]
       IN
       /\ block' = [block EXCEPT !.timestamp[p] = timestamp]
       /\ sol' = Append(sol,
                   [process |-> p, step |-> pc[p],
                    files |-> written_files(cfg.config[p], timestamp, pc[p])])
    /\ pc' = [pc EXCEPT ![p] = StepAfter(pc[p])]
    /\ UNCHANGED cfg

\* datetime.now() moves on by a second
Concurrent_tick ==
    /\ cfg.asset = "processes"
    /\ block.clock < ClockBound
    /\ block' = [block EXCEPT !.clock = block.clock + 1]
    /\ UNCHANGED <<pc, cfg, sol>>

InitConcurrent ==
    /\ pc = [p \in Processes |-> "solve"]
    /\ cfg \in [asset : {"processes"},
                config : [Processes ->
                            {AVAILABLE_CONFIGS[k] :
                               k \in DOMAIN AVAILABLE_CONFIGS}]]
    /\ block = [clock |-> 0, timestamp |-> [p \in Processes |-> <<>>]]
    /\ sol = <<>>

NextConcurrent ==
    \/ \E p \in Processes : Concurrent_step(p)
    \/ Concurrent_tick

SpecConcurrent == InitConcurrent /\ [][NextConcurrent]_vars

\* the files that process p has written
WrittenBy(p) ==
    UNION { sol[i].files : i \in { j \in DOMAIN sol : sol[j].process = p } }

\* C26 as stated: for any two scenario runs executing concurrently as
\* independent processes, two runs of the same scenario started within the
\* same second included, the sets of file paths they write are disjoint.
C26_NoCollisions ==
    cfg.asset = "processes" => WrittenBy(1) \cap WrittenBy(2) = {}

\* The collisions are confined to one case: two concurrent runs write
\* disjoint sets of file paths when their scenario names differ or when
\* their solve steps read different seconds off the clock.
NoCollisionsAcrossNamesOrSeconds ==
    ( /\ cfg.asset = "processes"
      /\ \/ cfg.config[1] # cfg.config[2]
         \/ block.timestamp[1] # block.timestamp[2] ) =>
        WrittenBy(1) \cap WrittenBy(2) = {}

\* Both runs have written their four files: two runs of one scenario under
\* different timestamps, or two scenarios of one use case under the same
\* timestamp.
BothRunsWritten ==
    /\ cfg.asset = "processes"
    /\ \A p \in Processes : pc[p] = "return" /\ Cardinality(WrittenBy(p)) = 4
    /\ \/ /\ cfg.config[1] = cfg.config[2]
          /\ block.timestamp[1] # block.timestamp[2]
       \/ /\ cfg.config[1] = <<"uc1", "_", "a", ".json">>
          /\ cfg.config[2] = <<"uc1", "_", "b", "_", "c", ".json">>
          /\ block.timestamp[1] = block.timestamp[2]

====
